---- MODULE Spec2Model ----
(***************************************************************************)
(* A model of src/agent.py: MCPClient, the JSON-RPC client that talks to   *)
(* an MCP server over a subprocess's standard input/output, and Agent,     *)
(* whose chat_with_tools drives the bounded tool-calling conversation.     *)
(*                                                                         *)
(* The specifications share the client's actions:                          *)
(*   Spec        one Agent: construction (handshake, tool preloading),     *)
(*               then chat_with_tools; a timeout may fire whenever the     *)
(*               queue is empty (time is abstracted away).                 *)
(*   ClientSpec  one Agent's MCPClient used directly by a caller that      *)
(*               issues list_tools / call_tool in any order; time is       *)
(*               explicit (Tick) and queue.get(timeout=T) raises Empty     *)
(*               exactly after T seconds of an empty queue.                *)
(*   ConcSpec    the same client used by two caller threads at once.       *)
(*   CrashSpec   as Spec, DirectSpec as ClientSpec without the clock, with  *)
(*               a subprocess that may exit at any time and may print      *)
(*               responses that lack the members the client reads.         *)
(*               In DirectSpec the Agent may be closed while a call waits. *)
(*   EchoSpec    as Spec, with a subprocess that answers every request     *)
(*               once and in order, and lists one tool, echo.              *)
(*   SchemaSpec  the tool registry's schema operations on any tool list.   *)
(*   TextSpec    call_tool's text extraction on any list of content blocks.*)
(*   RetrieverSpec  src/retriever.py: retrieval tasks that share one       *)
(*               Retriever and its lock.                                   *)
(*   ArticleSpec the same tasks on any titles and any files saved before.  *)
(*   EvalSpec    src/eval.py and src/article-eval.py: evaluate_article.     *)
(*   SplitSpec   src/translate.py: _split_text_smart on any text.           *)
(*   MediumSpec  src/medium_retriever.py: MediumRetriever.run, which runs  *)
(*               its retrieval tasks under a semaphore and gathers them.   *)
(***************************************************************************)
EXTENDS Naturals, Integers, Sequences, FiniteSets

VARIABLES
    mode,         \* which harness drives the client: "agent", "client", "conc",
                  \* "crash", "direct", "echo" (or "schema": the registry on its
                  \* own, "retriever": the tasks of a Retriever, "medium":
                  \* MediumRetriever.run, "eval": evaluate_article, "split":
                  \* _split_text_smart)
    proc,         \* MCPClient.process: "none", "running", "exited"
    reader,       \* MCPClient.reader_thread: "none", "running", "stopped"
    request_id,   \* MCPClient.request_id
    response_queue, \* MCPClient.response_queue (FIFO of decoded messages)
    wire,         \* what was written to the subprocess's stdin, in order
    lines_out,    \* number of lines the subprocess has printed so far
    junk,         \* number of lines _read_loop could not decode (and logged)
    tools,        \* MCPClient.tools, the cached tool list
    pc,           \* per caller thread: position inside list_tools / call_tool
    req_id,       \* per caller thread: the local req_id of its current call
    method,       \* per caller thread: "tools/list" or "tools/call"
    waited,       \* per caller thread: seconds the current queue.get has waited
    elapsed,      \* per caller thread: seconds since the current request was sent
    ret,          \* per caller thread: outcome of its last finished call
    drops,        \* per caller thread: ids of the messages its current call discarded
    expired,      \* ids of the requests whose call returned its timeout outcome
    apc,          \* position of the thread that owns the Agent
    mcp_client,   \* Agent.mcp_client is set (not None)
    mcp_enabled,  \* Agent.mcp_enabled
    init_resp,    \* the message _initialize dequeued as "response", or NoMsg
    allowed_tools, \* the allow-list the Agent was given, or NoAllowList
    tools_schema, \* the tool schema handed to the model
    ops,          \* calls the direct caller(s) have started so far
    turn,         \* chat_with_tools: the local turn
    messages,     \* chat_with_tools: the history list passed in by the caller
    tool_calls,   \* chat_with_tools: msg.tool_calls of the current round
    idx,          \* chat_with_tools: position of the for loop in tool_calls
    model_calls,  \* number of chat.completions.create calls made so far
    batches,      \* rounds so far in which the model asked for several tools
    args_json,    \* chat_with_tools: tool_call.function.arguments of the current call
    args,         \* chat_with_tools: the arguments parsed from it (their keys)
    chat_result,  \* how chat_with_tools ended: "none", "final", "limit", "raised"
    lock,         \* Retriever._lock: the task that holds it, or NoTask
    waiters,      \* Retriever._lock: the tasks waiting to acquire it, in order
    fpc,          \* per retrieval task: position inside fetch_and_save
    attempt,      \* per retrieval task: fetch_and_save's attempts so far
    fetched,      \* per retrieval task: how its last fetch_article_content ended
    sem,          \* MediumRetriever.run: the free permits of the semaphore sem
    sem_waiters,  \* MediumRetriever.run: the tasks waiting for a permit, in order
    rpc,          \* MediumRetriever.run: its position, "none" outside of run
    files,        \* today's directory of the category: file name -> what is in the file
    title,        \* per retrieval task: the title of its article
    saved,        \* per retrieval task: what its save_article_to_file returned
    fret,         \* per retrieval task: what its fetch_and_save returned
    source_text,  \* _split_text_smart: its argument text
    max_length,   \* _split_text_smart: its argument max_length
    chunks,       \* _split_text_smart: the list it returned
    script,       \* evaluate_article: the program it belongs to
    retry,        \* evaluate_article: its retry argument
    epc,          \* evaluate_article: its position
    eval_messages, \* evaluate_article: its local list messages
    eval_calls,   \* evaluate_article: the histories it has handed to the model, in order
    content_out,  \* evaluate_article: its local content_out
    eval_ret,     \* evaluate_article: what it returned
    content,      \* call_tool: the content blocks of the result it was sent
    text_content  \* call_tool: the text it made of them

clientVars == <<proc, reader, request_id, response_queue, wire, lines_out>>
callVars   == <<pc, req_id, method, waited, elapsed, ret, drops, expired>>
agentVars  == <<apc, mcp_client, mcp_enabled, init_resp>>
chatVars   == <<turn, messages, tool_calls, idx, model_calls, batches, chat_result,
               args_json, args>>
registryVars == <<tools, allowed_tools, tools_schema>>
retrieverVars == <<lock, waiters, fpc, attempt, fetched, sem, sem_waiters, rpc,
                   files, title, saved, fret>>
textVars == <<content, text_content>>
evalVars == <<script, retry, epc, eval_messages, eval_calls, content_out, eval_ret>>
splitVars == <<source_text, max_length, chunks>>
vars == <<mode, splitVars, evalVars, textVars, retrieverVars, junk, registryVars, clientVars, callVars, agentVars, ops, chatVars>>

-----------------------------------------------------------------------------
(* Bounds of the model *)

\* lines the subprocess prints during one Agent session (Spec)
MaxLines == 2
\* lines the subprocess prints to a directly used client (ClientSpec,
\* ConcSpec, DirectSpec), and lines the echo server prints (EchoSpec)
MaxClientLines == 3
\* calls a direct caller of the MCPClient starts (ClientSpec, ConcSpec)
MaxOps == 2
\* tool invocations the model may ask for in one round
MaxCalls == 2
\* the model asks for more than one tool only in its first MaxBatchRounds rounds
MaxBatchRounds == 1
\* tools in a tool list handed to the registry operations (SchemaSpec)
MaxTools == 2
\* the model writes arguments of any kind only in its first MaxArgRounds rounds
MaxArgRounds == 1
\* content blocks in one tool result (TextSpec)
MaxBlocks == 3
\* retrieval tasks running at once on one Retriever (RetrieverSpec)
MaxTasks == 3
\* articles one MediumRetriever.run is given, a task each (MediumSpec)
MaxArticles == 4
\* characters in a text handed to _split_text_smart (SplitSpec)
MaxTextLen == 9
\* the greatest max_length handed to _split_text_smart (SplitSpec)
MaxChunkLen == 4

(* Program constants *)

\* response_queue.get(timeout=10) in _initialize
InitTimeout == 10
\* response_queue.get(timeout=10) in list_tools
ListTimeout == 10
\* response_queue.get(timeout=60) in call_tool
ToolTimeout == 60

\* max_turns = 10 in chat_with_tools
max_turns == 10

\* queue.Queue() in MCPClient.__init__: maxsize defaults to 0, no limit
maxsize == 0

\* max_retries = 3 in Retriever.fetch_and_save
max_retries == 3

\* CONCURRENCY_LIMIT = 3 in MediumRetriever.run
CONCURRENCY_LIMIT == 3

\* [:100] in Retriever.sanitize_filename
NameLimit == 100

\* The clock advances in steps of half the shortest timeout, which divide
\* all three timeouts: a message can arrive strictly inside every wait.
TimeUnit == ListTimeout \div 2
\* elapsed saturates here; anything above ToolTimeout is "too late"
ElapsedCap == ToolTimeout + ToolTimeout

\* Python's None as the value of msg.get("id")
None == -1
\* dict.get finds no such key; the member is not there.
Absent == "<absent>"
\* The thread that owns the Agent, and a second caller thread (ConcSpec).
Main == "main"
Other == "other"
Threads == {Main, Other}

\* queue.get(timeout=T) is timed only where the clock is modelled.
Timed == mode = "client"

\* The harnesses that build an Agent and run chat_with_tools on it, and
\* those that call the Agent's MCPClient directly.
AgentModes == {"agent", "crash", "echo"}
CallerModes == {"client", "conc", "direct"}

\* The harnesses whose subprocess may print responses of any shape; in the
\* others every response has the members JSON-RPC and MCP prescribe.
AnyShape == mode \in {"crash", "direct"}

\* How many lines the subprocess prints at most.
LineBudget == IF mode \in {"agent", "crash"} THEN MaxLines ELSE MaxClientLines

-----------------------------------------------------------------------------
(* Messages *)

\* A decoded line (a JSON object): the "id" member (None when absent),
\* whether the message has an "error" member, and the shape of the member
\* that list_tools / call_tool read from it:
\*   "full"   the result lists tools / text content; the error has a message
\*   "echo"   the result lists the one tool of the echo server
\*   "empty"  the result has no "tools" / "content" member
\*   "bad"    there is no "result" member; the error has no "message"
Reply(i, e, b) == [id |-> i, err |-> e, body |-> b]
Msg(i, e) == Reply(i, e, "full")
NoMsg == Msg(None - 1, FALSE)
\* A line that json.loads rejects.
NotJson == Msg(None - 2, FALSE)

\* What was written to the subprocess: requests carry an id, the
\* notifications/initialized notification carries none; a tools/call
\* request carries the arguments of the tool (the set of their keys).
NoParams == {Absent}
Req(i, m) == [id |-> i, method |-> m, arguments |-> NoParams]
ToolReq(i, arguments) == [id |-> i, method |-> "tools/call", arguments |-> arguments]

SentIds == {wire[k].id : k \in 1..Len(wire)} \ {None}

\* The greatest request id written so far (None when there is none).
LastSent == IF SentIds = {} THEN None
            ELSE CHOOSE i \in SentIds : \A j \in SentIds : j <= i

\* The ids the subprocess answers with: the request sent last, and the one
\* before it, which stands for every earlier request (a response to any of
\* them is stale in the same way: ids are only compared for equality).
AnswerIds == {i \in SentIds : i >= LastSent - 1}

\* The ids a list_tools / call_tool may be waiting for: with one caller the
\* id of the tools/list or tools/call request sent last, with two callers
\* also the one before it.
Awaited ==
    {wire[k].id : k \in {n \in 1..Len(wire) : wire[n].method \in {"tools/list", "tools/call"}}}
        \cap (IF mode = "conc" THEN AnswerIds ELSE {LastSent})

\* The methods of the requests written with id i.
MethodsOf(i) == {wire[k].method : k \in {n \in 1..Len(wire) : wire[n].id = i}}

\* The shapes a message is printed in.  Only a message whose id is awaited
\* is ever looked into, and only call_tool looks into an error, so any
\* other message is printed in one shape.
Bodies(i, e) ==
    IF ~AnyShape \/ i \notin Awaited THEN {"full"}
    ELSE IF e THEN (IF "tools/call" \in MethodsOf(i) THEN {"full", "bad"} ELSE {"full"})
    ELSE {"full", "empty", "bad"}

\* The echo server answers each request once, in the order of the requests:
\* initialize with an empty result, tools/list with its one tool, tools/call
\* with text content.
EchoAnswer(request) ==
    Reply(request.id, FALSE,
          CASE request.method = "initialize" -> "empty"
            [] request.method = "tools/list" -> "echo"
            [] OTHER                         -> "full")

EchoLines ==
    LET requests == SelectSeq(wire, LAMBDA m : m.id # None) IN
        IF lines_out < Len(requests) THEN {EchoAnswer(requests[lines_out + 1])} ELSE {}

\* The lines the subprocess may print next: a result or an error for a
\* request it has been sent (so also stale and duplicate responses), a
\* notification or an id-less error, or a line that is not JSON.  Every
\* line that is JSON is taken to be a JSON object.
Lines ==
    IF mode = "echo" THEN EchoLines
    ELSE UNION {{Reply(i, e, b) : b \in Bodies(i, e)} : i \in AnswerIds \cup {None}, e \in BOOLEAN}
            \cup {NotJson}

\* The outcome of a finished call as the caller sees it.
\*   kind "ok" / "error": taken from the dequeued response with id `from`;
\*                        `body` is the shape of the result (any error
\*                        that can be read gives the same outcome)
\*   kind "raised": reading that response raised (KeyError, TypeError)
\*   kind "timeout": queue.Empty was raised
\*   value: the list that list_tools returns (<<>> for every other call)
Outcome(k, f, el) ==
    [kind |-> k, from |-> f, elapsed |-> el, body |-> "full", value |-> <<>>]
NoOutcome == Outcome("none", None, 0)

-----------------------------------------------------------------------------
(* Tool descriptors *)

\* The tool has no "inputSchema" member.
NoSchema == [type |-> "<no inputSchema>", properties |-> {}]
\* The JSON object {} as an inputSchema.
EmptyObject == [type |-> Absent, properties |-> {}]

\* A tool as tools/list reports it; description and inputSchema are optional.
Tool(n, d, sch) == [name |-> n, description |-> d, inputSchema |-> sch]

\* The tools a "full" tools/list result carries, in the order it lists them.
ServerTools ==
    << Tool("navigate_page", "open a url", [type |-> "object", properties |-> {"url"}]),
       Tool("take_snapshot", Absent, NoSchema) >>

\* The one tool of the echo server:
\* {"name": "echo", "description": "", "inputSchema": {}}
EchoTool == Tool("echo", "", EmptyObject)

\* Line 199: the default of tool.get("inputSchema", ...)
EmptyObjectSchema == [type |-> "object", properties |-> {}]

\* The optional members are copied as they are, absent or not.
FunctionSpecNoDefault(tool) ==
    [type |-> "function",
     function |-> [name |-> tool.name,
                   description |-> tool.description,
                   parameters |-> tool.inputSchema]]

\* Lines 193-202: the function spec built for one tool.
FunctionSpec(tool) ==
    [type |-> "function",
     function |-> [name |-> tool.name,
                   description |-> IF tool.description = Absent THEN ""
                                   ELSE tool.description,
                   parameters |-> IF tool.inputSchema = NoSchema THEN EmptyObjectSchema
                                  ELSE tool.inputSchema]]

\* The list of specs outlives the call: the specs are appended to what an
\* earlier call built from the same tools.
get_openai_tools_schema_kept(ts) ==
    [i \in 1..Len(ts) |-> FunctionSpec(ts[i])] \o [i \in 1..Len(ts) |-> FunctionSpec(ts[i])]

\* Lines 189-204: MCPClient.get_openai_tools_schema over self.tools = ts
get_openai_tools_schema(ts) == [i \in 1..Len(ts) |-> FunctionSpec(ts[i])]

\* The allow-list an Agent is given by its caller, or none.
NoAllowList == [given |-> FALSE, names |-> {}]
AllowList(names) == [given |-> TRUE, names |-> names]

\* The registry's filter: the tools whose name is on the allow-list, in
\* registry order; all tools when no allow-list is given.
filter(ts, allowed) ==
    IF allowed.given THEN SelectSeq(ts, LAMBDA tool : tool.name \in allowed.names)
    ELSE ts

\* The inputs of the registry operations: tool lists of up to MaxTools
\* tools (names may repeat), and the allow-lists over the names in use.
ToolNames == {"navigate_page", "take_snapshot"}
Descriptors ==
    {Tool(n, d, sch) : n \in ToolNames, d \in {Absent, "open a url"},
                      sch \in {NoSchema, [type |-> "object", properties |-> {"url"}]}}
ToolLists == UNION {[1..n -> Descriptors] : n \in 0..MaxTools}
AllowLists == {NoAllowList} \cup {AllowList(names) : names \in SUBSET (ToolNames \cup {"evaluate_script"})}

TimeoutOf(m) == IF m = "tools/call" THEN ToolTimeout ELSE ListTimeout

-----------------------------------------------------------------------------
(* The text of a tool result, lines 184-187 *)

\* A content block: its "type" member (Absent when it has none) and its
\* "text" member, a string (a sequence of characters), if it has one.
Block(type, has_text, text) == [type |-> type, has_text |-> has_text, text |-> text]
NoText == <<>>

BlockTypes == {"text", "image", Absent}
Texts == {<<>>, <<"a">>, <<"b">>}
Blocks ==
    {Block(type, TRUE, text) : type \in BlockTypes, text \in Texts}
        \cup {Block(type, FALSE, NoText) : type \in BlockTypes}
Contents == UNION {[1..n -> Blocks] : n \in 0..MaxBlocks}

\* str.join: the parts, with sep between one part and the next.
RECURSIVE join(_, _)
join(sep, parts) ==
    IF parts = <<>> THEN <<>>
    ELSE IF Len(parts) = 1 THEN parts[1]
    ELSE parts[1] \o sep \o join(sep, Tail(parts))

\* c["type"] or, for a text block, c["text"] raises KeyError.
BlockRaises(c) == c.type = Absent \/ (c.type = "text" /\ ~c.has_text)

NoTextContent == [kind |-> "none", text |-> <<>>]

\* The text of every block that has one is taken, whatever its type.
TextContentOfAll(blocks) ==
    IF \E i \in 1..Len(blocks) : BlockRaises(blocks[i])
       THEN [kind |-> "raised", text |-> <<>>]
       ELSE LET kept == SelectSeq(blocks, LAMBDA c : c.has_text) IN
                [kind |-> "text",
                 text |-> join(<<"\n">>, [i \in 1..Len(kept) |-> kept[i].text])]

\* Line 185: "\n".join([c["text"] for c in content if c["type"] == "text"])
TextContent(blocks) ==
    IF \E i \in 1..Len(blocks) : BlockRaises(blocks[i])
       THEN [kind |-> "raised", text |-> <<>>]
       ELSE LET kept == SelectSeq(blocks, LAMBDA c : c.type = "text") IN
                [kind |-> "text",
                 text |-> join(<<"\n">>, [i \in 1..Len(kept) |-> kept[i].text])]

\* Lines 184-187: call_tool makes the text of the result it received.
TextExtract ==
    /\ mode = "text"
    /\ text_content = NoTextContent
    /\ text_content' = TextContent(content)
    /\ UNCHANGED <<mode, splitVars, evalVars, content, retrieverVars, junk, registryVars, clientVars, callVars, agentVars, ops, chatVars>>

-----------------------------------------------------------------------------
(* MCPClient._send: json.dumps + write + flush; a BrokenPipeError is logged *)
(* and swallowed, so nothing reaches the wire and the caller goes on.       *)
send(message) ==
    IF proc = "running" THEN wire' = Append(wire, message)
                        ELSE wire' = wire

-----------------------------------------------------------------------------
(* The subprocess and the reader thread *)

\* Every line is put on the queue, as it was read.
DecodableAlways(line) == TRUE

\* Lines 63-66: json.loads(line) does not raise JSONDecodeError.
Decodable(line) == line # NotJson

\* The queue holds one message at most.
FullAtOne(q) == Len(q) >= 1

\* Line 45: queue.Queue() is created without a maxsize, so it is never
\* full (queue.Queue.full: 0 < maxsize <= qsize) and put never blocks.
Full(q) == 0 < maxsize /\ maxsize <= Len(q)

\* One iteration of MCPClient._read_loop: readline() returns the next line
\* the subprocess printed; a JSON line is put on response_queue (put blocks
\* while the queue is full), any other line is logged and dropped.
read_loop ==
    /\ reader = "running"
    /\ proc = "running"
    /\ lines_out < LineBudget
    /\ \E line \in Lines :
          IF Decodable(line)
             THEN /\ ~Full(response_queue)
                  /\ response_queue' = Append(response_queue, line)
                  /\ junk' = junk
             ELSE /\ response_queue' = response_queue
                  /\ junk' = junk + 1
    /\ lines_out' = lines_out + 1
    /\ UNCHANGED <<mode, splitVars, evalVars, textVars, retrieverVars, registryVars, proc, reader, request_id, wire, callVars, agentVars, ops, chatVars>>

\* The subprocess ends by itself (crash, exit): its pipes close.
ProcExit ==
    /\ proc = "running"
    /\ proc' = "exited"
    /\ UNCHANGED <<mode, splitVars, evalVars, textVars, retrieverVars, junk, registryVars, reader, request_id, response_queue, wire, lines_out,
                   callVars, agentVars, ops, chatVars>>

\* _read_loop leaves its loop: poll() is not None, or readline() returns "".
read_loop_exit ==
    /\ reader = "running"
    /\ proc = "exited"
    /\ reader' = "stopped"
    /\ UNCHANGED <<mode, splitVars, evalVars, textVars, retrieverVars, junk, registryVars, proc, request_id, response_queue, wire, lines_out,
                   callVars, agentVars, ops, chatVars>>

-----------------------------------------------------------------------------
(* Agent.__init__ and MCPClient.__init__ / _initialize *)

\* Agent.__init__ that creates no client: no mcp_config, no "command" in
\* it, or Popen raising inside MCPClient.__init__ (logged, lines 251-256).
AgentInitNoClient ==
    /\ apc = "new"
    /\ apc' = "ready"
    /\ UNCHANGED <<mode, splitVars, evalVars, textVars, retrieverVars, junk, registryVars, clientVars, callVars, mcp_client, mcp_enabled, init_resp, ops, chatVars>>

\* MCPClient.__init__, lines 32-50: Popen succeeds, the fields are set and
\* the reader thread is started.
MCPClientStart ==
    /\ apc = "new"
    /\ proc' = "running"
    /\ reader' = "running"
    /\ apc' = "initialize"
    /\ UNCHANGED <<mode, splitVars, evalVars, textVars, retrieverVars, junk, registryVars, request_id, response_queue, wire, lines_out, callVars,
                   mcp_client, mcp_enabled, init_resp, ops, chatVars>>

\* A counter that is read but never advanced.
IncrForgotten(n) == n

\* The counter advances by two.
IncrByTwo(n) == n + 2

\* Lines 105 / 133 / 156: self.request_id += 1
Incr(n) == n + 1

\* _initialize, lines 104-117: take an id, send the initialize request.
InitializeSend ==
    /\ apc = "initialize"
    /\ req_id' = [req_id EXCEPT ![Main] = request_id]
    /\ request_id' = Incr(request_id)
    /\ send(Req(request_id, "initialize"))
    /\ waited' = [waited EXCEPT ![Main] = 0]
    /\ elapsed' = [elapsed EXCEPT ![Main] = 0]
    /\ apc' = "handshake"
    /\ UNCHANGED <<mode, splitVars, evalVars, textVars, retrieverVars, junk, registryVars, proc, reader, response_queue, lines_out, pc, method, ret,
                   drops, expired, mcp_client, mcp_enabled, init_resp, ops, chatVars>>

\* _initialize, lines 121-126: does the dequeued message end the handshake
\* with an exception?  A differing id is noticed and ignored ("pass").
InitializeFails(response, rid) == response.err

\* _initialize, lines 119-129: the first message on the queue is taken as
\* the response; on failure the exception leaves MCPClient.__init__ and
\* Agent.__init__ logs it; otherwise the initialized notification is sent,
\* Agent.mcp_client is assigned and Agent.__init__ goes on to list_tools.
InitializeGet ==
    /\ apc = "handshake"
    /\ response_queue # <<>>
    /\ response_queue' = Tail(response_queue)
    /\ init_resp' = Head(response_queue)
    /\ IF InitializeFails(Head(response_queue), req_id[Main])
          THEN /\ apc' = "ready"
               /\ UNCHANGED <<wire, pc, method, mcp_client>>
          ELSE /\ send(Req(None, "notifications/initialized"))
               /\ mcp_client' = TRUE
               /\ apc' = "preload"
               /\ pc' = [pc EXCEPT ![Main] = "begin"]
               /\ method' = [method EXCEPT ![Main] = "tools/list"]
    /\ UNCHANGED <<mode, splitVars, evalVars, textVars, retrieverVars, junk, registryVars, proc, reader, request_id, lines_out, req_id, waited,
                   elapsed, ret, drops, expired, mcp_enabled, ops, chatVars>>

\* _initialize, line 119: queue.Empty after 10 s; it leaves MCPClient.__init__
\* and Agent.__init__ logs it.
InitializeTimeout ==
    /\ apc = "handshake"
    /\ response_queue = <<>>
    /\ Timed => waited[Main] >= InitTimeout
    /\ apc' = "ready"
    /\ UNCHANGED <<mode, splitVars, evalVars, textVars, retrieverVars, junk, registryVars, clientVars, callVars, mcp_client, mcp_enabled, init_resp, ops, chatVars>>

-----------------------------------------------------------------------------
(* MCPClient.list_tools and MCPClient.call_tool, per calling thread *)

\* Lines 132 / 155: req_id = self.request_id
CallBegin(t) ==
    /\ pc[t] = "begin"
    /\ req_id' = [req_id EXCEPT ![t] = request_id]
    /\ pc' = [pc EXCEPT ![t] = "incr"]
    /\ UNCHANGED <<mode, splitVars, evalVars, textVars, retrieverVars, junk, registryVars, clientVars, method, waited, elapsed, ret, drops, expired, agentVars, ops, chatVars>>

\* The arguments call_tool is called with: those chat_with_tools parsed,
\* or those of the direct caller.
Arguments(t) == IF mode \in AgentModes THEN args ELSE {"x"}

\* Lines 133-135 / 156-169: self.request_id += 1, then _send of the request.
CallSend(t) ==
    /\ pc[t] = "incr"
    /\ request_id' = Incr(request_id)
    /\ send(IF method[t] = "tools/call" THEN ToolReq(req_id[t], Arguments(t))
                                      ELSE Req(req_id[t], method[t]))
    /\ pc' = [pc EXCEPT ![t] = "wait"]
    /\ waited' = [waited EXCEPT ![t] = 0]
    /\ elapsed' = [elapsed EXCEPT ![t] = 0]
    /\ drops' = [drops EXCEPT ![t] = {}]
    /\ ret' = [ret EXCEPT ![t] = NoOutcome]
    /\ UNCHANGED <<mode, splitVars, evalVars, textVars, retrieverVars, junk, registryVars, proc, reader, response_queue, lines_out, req_id, method,
                   expired, agentVars, ops, chatVars>>

\* The first message is taken as the response, as _initialize does.
MatchesAny(response, rid) == TRUE

\* Any response that is not newer than the request is taken.
MatchesUpTo(response, rid) == response.id \in 0..rid

\* Lines 141 / 176: if response.get("id") == req_id: break
Matches(response, rid) == response.id = rid

\* Lines 147-149 / 181-184: what the call makes of the response that
\* matched.  call_tool subscripts the error for its "message", and both
\* subscript the response for its "result".
ResultKind(response, m) ==
    IF response.err
       THEN IF m = "tools/call" /\ response.body = "bad" THEN "raised" ELSE "error"
       ELSE IF response.body = "bad" THEN "raised" ELSE "ok"

\* The tools are listed last first.
ListedToolsReversed(response) ==
    IF response.body = "full"
       THEN [i \in 1..Len(ServerTools) |-> ServerTools[Len(ServerTools) + 1 - i]]
       ELSE <<>>

\* Line 151: response["result"].get("tools", [])
ListedTools(response) ==
    CASE response.body = "full" -> ServerTools
      [] response.body = "echo" -> <<EchoTool>>
      [] OTHER                  -> <<>>

\* Lines 138-142 / 171-177: one queue.get that returns a message.  A match
\* leaves the loop (lines 147-152 / 181-187 then build the result, and
\* list_tools stores the tools it was sent in self.tools); any
\* other message is forgotten and the loop calls queue.get again, with a
\* fresh timeout.
CallGet(t) ==
    /\ pc[t] = "wait"
    /\ response_queue # <<>>
    /\ response_queue' = Tail(response_queue)
    /\ LET response == Head(response_queue) IN
          IF Matches(response, req_id[t])
             THEN /\ tools' = IF method[t] = "tools/list"
                                   /\ ResultKind(response, method[t]) = "ok"
                                  THEN ListedTools(response) ELSE tools
                  /\ ret' = [ret EXCEPT ![t] =
                               [Outcome(ResultKind(response, method[t]),
                                        response.id, elapsed[t])
                                  EXCEPT !.body = IF ResultKind(response, method[t]) = "error"
                                                     THEN "full" ELSE response.body,
                                         !.value = IF method[t] = "tools/list"
                                                      /\ ResultKind(response, method[t]) = "ok"
                                                     THEN tools' ELSE <<>>]]
                  /\ pc' = [pc EXCEPT ![t] = "returned"]
                  /\ UNCHANGED <<waited, drops>>
             ELSE /\ waited' = [waited EXCEPT ![t] = 0]
                  /\ drops' = [drops EXCEPT ![t] = drops[t] \cup {response.id}]
                  /\ UNCHANGED <<ret, pc, tools>>
    /\ UNCHANGED <<mode, splitVars, evalVars, textVars, retrieverVars, junk, allowed_tools, tools_schema, proc, reader, request_id, wire, lines_out, req_id, method,
                   elapsed, expired, agentVars, ops, chatVars>>

\* queue.Empty is swallowed and the loop calls queue.get again.
CallTimeoutKeepsWaiting(t) ==
    /\ pc[t] = "wait"
    /\ response_queue = <<>>
    /\ Timed => waited[t] >= TimeoutOf(method[t])
    /\ waited' = [waited EXCEPT ![t] = 0]
    /\ UNCHANGED <<mode, splitVars, evalVars, textVars, retrieverVars, junk, registryVars, clientVars, pc, req_id, method, elapsed, ret, drops,
                   expired, agentVars, ops, chatVars>>

\* queue.Empty in list_tools also empties the cached tool list.
CallTimeoutClearsTools(t) ==
    /\ pc[t] = "wait"
    /\ response_queue = <<>>
    /\ Timed => waited[t] >= TimeoutOf(method[t])
    /\ ret' = [ret EXCEPT ![t] = Outcome("timeout", None, elapsed[t])]
    /\ pc' = [pc EXCEPT ![t] = "returned"]
    /\ expired' = expired \cup {req_id[t]}
    /\ tools' = IF method[t] = "tools/list" THEN <<>> ELSE tools
    /\ UNCHANGED <<mode, splitVars, evalVars, textVars, retrieverVars, junk, allowed_tools, tools_schema, clientVars, req_id, method, waited, elapsed, drops, agentVars,
                   ops, chatVars>>

\* Lines 143-145 / 178-179: queue.Empty, the call returns its timeout outcome.
CallTimeout(t) ==
    /\ pc[t] = "wait"
    /\ response_queue = <<>>
    /\ Timed => waited[t] >= TimeoutOf(method[t])
    /\ ret' = [ret EXCEPT ![t] = Outcome("timeout", None, elapsed[t])]
    /\ pc' = [pc EXCEPT ![t] = "returned"]
    /\ expired' = expired \cup {req_id[t]}
    /\ UNCHANGED <<mode, splitVars, evalVars, textVars, retrieverVars, junk, registryVars, clientVars, req_id, method, waited, elapsed, drops, agentVars,
                   ops, chatVars>>

\* Agent.__init__, lines 249-250: list_tools has returned (it never raises
\* here), so mcp_enabled is set.
AgentInitPreloaded ==
    /\ apc = "preload"
    /\ pc[Main] = "returned"
    /\ ret[Main].kind # "raised"
    /\ mcp_enabled' = TRUE
    /\ apc' = "ready"
    /\ pc' = [pc EXCEPT ![Main] = "idle"]
    /\ UNCHANGED <<mode, splitVars, evalVars, textVars, retrieverVars, junk, registryVars, clientVars, req_id, method, waited, elapsed, ret, drops, expired,
                   mcp_client, init_resp, ops, chatVars>>

\* Agent.__init__, lines 249-252: list_tools raised; the exception is
\* logged, mcp_client stays assigned and mcp_enabled stays False.
AgentInitPreloadRaised ==
    /\ apc = "preload"
    /\ pc[Main] = "returned"
    /\ ret[Main].kind = "raised"
    /\ apc' = "ready"
    /\ pc' = [pc EXCEPT ![Main] = "idle"]
    /\ UNCHANGED <<mode, splitVars, evalVars, textVars, retrieverVars, junk, registryVars, clientVars, req_id, method, waited, elapsed,
                   ret, drops, expired, mcp_client, mcp_enabled, init_resp, ops, chatVars>>

-----------------------------------------------------------------------------
(* Time (ClientSpec) *)

\* The thread is blocked in queue.get with this timeout, or in none.
GetTimeout(t) ==
    IF t = Main /\ apc = "handshake" THEN InitTimeout
    ELSE IF pc[t] = "wait" THEN TimeoutOf(method[t])
    ELSE 0

Min(a, b) == IF a < b THEN a ELSE b

\* TimeUnit seconds pass.  A blocked queue.get returns as soon as a message
\* is there and raises Empty as soon as its timeout is over, so time only
\* passes while the queue is empty and no timeout is due.
Tick ==
    /\ Timed
    /\ response_queue = <<>>
    /\ \E t \in Threads : GetTimeout(t) > 0
    /\ \A t \in Threads : GetTimeout(t) > 0 => waited[t] < GetTimeout(t)
    /\ waited' = [t \in Threads |->
                    IF GetTimeout(t) > 0 THEN waited[t] + TimeUnit ELSE waited[t]]
    /\ elapsed' = [t \in Threads |->
                    IF GetTimeout(t) > 0 THEN Min(elapsed[t] + TimeUnit, ElapsedCap)
                    ELSE elapsed[t]]
    /\ UNCHANGED <<mode, splitVars, evalVars, textVars, retrieverVars, junk, registryVars, clientVars, pc, req_id, method, ret, drops, expired, agentVars, ops, chatVars>>

-----------------------------------------------------------------------------
(* A direct caller of agent.mcp_client (ClientSpec, ConcSpec) *)

Methods == {"tools/list", "tools/call"}

\* The caller thread t starts list_tools or call_tool on the client.
CallerStart(t) ==
    /\ mode \in CallerModes
    /\ t = Other => mode = "conc"
    /\ apc = "ready"
    /\ mcp_client
    /\ pc[t] \in {"idle", "returned"}
    /\ ops < MaxOps
    /\ \E m \in Methods : method' = [method EXCEPT ![t] = m]
    /\ pc' = [pc EXCEPT ![t] = "begin"]
    /\ ops' = ops + 1
    /\ UNCHANGED <<mode, splitVars, evalVars, textVars, retrieverVars, junk, registryVars, clientVars, req_id, waited, elapsed, ret, drops, expired, agentVars, chatVars>>

\* Agent.close (lines 344-346) with MCPClient.close (lines 206-208), called
\* by the thread that owns the Agent while the caller may be inside a call:
\* the subprocess is asked to terminate.
ClientClose ==
    /\ mode = "direct"
    /\ apc = "ready"
    /\ mcp_client
    /\ apc' = "closed"
    /\ proc' = IF proc = "running" THEN "exited" ELSE proc
    /\ UNCHANGED <<mode, splitVars, evalVars, textVars, retrieverVars, junk, registryVars, reader, request_id, response_queue, wire, lines_out,
                   callVars, mcp_client, mcp_enabled, init_resp, ops, chatVars>>

-----------------------------------------------------------------------------
(* Agent.chat_with_tools *)

\* History entries: the caller's user message, the assistant's tool-call
\* turn (msg.model_dump(), with the ids of its tool_calls) and a tool result.
UserTurn == [role |-> "user", calls |-> <<>>, tool_call_id |-> 0, content |-> "prompt"]
AssistantTurn(calls) ==
    [role |-> "assistant", calls |-> calls, tool_call_id |-> 0, content |-> "none"]
ToolTurn(id, result) ==
    [role |-> "tool", calls |-> <<>>, tool_call_id |-> id, content |-> result]

\* The new turn replaces the last turn of the history.
appendOverLast(history, turn_) ==
    IF history = <<>> THEN <<turn_>>
    ELSE Append(SubSeq(history, 1, Len(history) - 1), turn_)

\* The new turn is put at the end twice.
appendTwice(history, turn_) == Append(Append(history, turn_), turn_)

\* Lines 307 / 322: messages.append(...) on the caller's list
append(history, turn_) == Append(history, turn_)

\* The remote error's message is returned as it is.
ToolTextUnprefixed(outcome) ==
    CASE outcome.kind = "timeout" -> "Error: Tool execution timed out."
      [] outcome.kind = "error"   -> "remote"
      [] outcome.body = "empty"   -> ""
      [] OTHER                    -> "text"

\* A timeout gives the text of an empty result.
ToolTextEmptyOnTimeout(outcome) ==
    CASE outcome.kind = "timeout" -> ""
      [] outcome.kind = "error"   -> "Error: remote"
      [] outcome.body = "empty"   -> ""
      [] OTHER                    -> "text"

\* call_tool's return value, lines 178-187: the timeout text, the remote
\* error text, or the text of the result.
ToolText(outcome) ==
    CASE outcome.kind = "timeout" -> "Error: Tool execution timed out."
      [] outcome.kind = "error"   -> "Error: remote"
      [] outcome.body = "empty"   -> ""
      [] OTHER                    -> "text"

\* The model's tool_calls of one round, as the sequence of their ids: n
\* distinct ids, listed in ascending or in descending order.
Batch(n) == {[i \in 1..n |-> i], [i \in 1..n |-> n + 1 - i]}

\* What the model may ask for in one round: one tool, or (in the first
\* rounds) several tools.
ToolRequests ==
    {<<1>>} \cup
    (IF turn < MaxBatchRounds
        THEN UNION {Batch(n) : n \in 2..MaxCalls} ELSE {})

\* The tool loop is entered whatever the state of the client.
McpReadyAlways == TRUE

\* Line 279: not (not self.mcp_enabled or not self.mcp_client)
McpReady == mcp_enabled /\ mcp_client

\* Lines 279-281 with 258-273: MCP is not enabled, chat() makes one model
\* call without tools and returns its text, or re-raises its exception.
ChatFallback ==
    /\ mode \in AgentModes
    /\ apc = "ready"
    /\ chat_result = "none"
    /\ ~McpReady
    /\ messages' = <<UserTurn>>
    /\ model_calls' = model_calls + 1
    /\ \E r \in {"final", "raised"} : chat_result' = r
    /\ apc' = "done"
    /\ UNCHANGED <<mode, splitVars, evalVars, textVars, retrieverVars, junk, registryVars, clientVars, callVars, mcp_client, mcp_enabled, init_resp,
                   ops, turn, tool_calls, idx, batches, args_json, args>>

\* Lines 283-289: the tool schema is built from the cached tools and the
\* loop is entered with turn = 0.
ChatStart ==
    /\ mode \in AgentModes
    /\ apc = "ready"
    /\ chat_result = "none"
    /\ McpReady
    /\ messages' = <<UserTurn>>
    /\ tools_schema' = get_openai_tools_schema(tools)
    /\ turn' = 0
    /\ apc' = "loop"
    /\ UNCHANGED <<mode, splitVars, evalVars, textVars, retrieverVars, junk, tools, allowed_tools, clientVars, callVars, mcp_client, mcp_enabled, init_resp,
                   ops, tool_calls, idx, model_calls, batches, chat_result, args_json, args>>

\* The loop test off by one.
LoopGuardInclusive == turn <= max_turns

\* The loop ends one round early.
LoopGuardEarly == turn < max_turns - 1

\* Line 291: while turn < max_turns
LoopGuard == turn < max_turns

\* The exception of the model call is logged and the loop goes on.
ModelRaisesLogged ==
    /\ chat_result' = "raised"
    /\ apc' = "loop"
    /\ UNCHANGED <<messages, tool_calls, idx, batches, args_json, args>>

\* Lines 338-340: the model call raised; the exception is logged and
\* re-raised to the caller of chat_with_tools.
ModelRaises ==
    /\ chat_result' = "raised"
    /\ apc' = "done"
    /\ UNCHANGED <<messages, tool_calls, idx, batches, args_json, args>>

\* The final answer's message is put into the history before it is returned.
FinalAnswerRecorded ==
    /\ chat_result' = "final"
    /\ apc' = "done"
    /\ messages' = Append(messages, AssistantTurn(<<>>))
    /\ UNCHANGED <<tool_calls, idx, batches, args_json, args>>

\* Lines 330-336: finish_reason is not "tool_calls"; msg.content is returned.
FinalAnswer ==
    /\ chat_result' = "final"
    /\ apc' = "done"
    /\ UNCHANGED <<messages, tool_calls, idx, batches, args_json, args>>

\* Lines 291-307 and 330-340: one pass of the loop head.  turn is counted,
\* the model is called; it raises (re-raised to the caller), gives a final
\* answer (returned), or asks for tools (its turn is appended to the
\* history and the for loop starts).
ChatTurn ==
    /\ apc = "loop"
    /\ LoopGuard
    /\ turn' = turn + 1
    /\ model_calls' = model_calls + 1
    /\ \/ ModelRaises
       \/ FinalAnswer
       \/ \E calls \in ToolRequests :
             /\ messages' = append(messages, AssistantTurn(calls))
             /\ tool_calls' = calls
             /\ idx' = 1
             /\ batches' = IF Len(calls) > 1 THEN batches + 1 ELSE batches
             /\ UNCHANGED <<args_json, args>>
             /\ apc' = "exec"
             /\ UNCHANGED chat_result
    /\ UNCHANGED <<mode, splitVars, evalVars, textVars, retrieverVars, junk, registryVars, clientVars, callVars, mcp_client, mcp_enabled, init_resp, ops>>

\* Lines 291 and 342: the loop ends because turn reached max_turns.
ChatTurnLimit ==
    /\ apc = "loop"
    /\ ~LoopGuard
    /\ chat_result' = "limit"
    /\ apc' = "done"
    /\ UNCHANGED <<mode, splitVars, evalVars, textVars, retrieverVars, junk, registryVars, clientVars, callVars, mcp_client, mcp_enabled, init_resp,
                   ops, turn, messages, tool_calls, idx, model_calls, batches, args_json, args>>

\* The strings the model writes as a tool_call's arguments: an object with
\* one key, an empty object, and two strings that are not JSON.
ArgStrings ==
    IF mode = "echo" /\ turn <= MaxArgRounds
       THEN {"{\"x\": 1}", "{}", "not-json", "{\"x\": "}
       ELSE {"{\"x\": 1}"}

\* json.loads(s) does not raise JSONDecodeError.
IsJson(s) == s \in {"{\"x\": 1}", "{}"}

\* json.loads(s) for a string that is JSON: the keys of the object.
loads(s) == IF s = "{}" THEN {} ELSE {"x"}

\* The string that is not JSON is passed on as it is.
ParseArgsRaw(s) == IF IsJson(s) THEN loads(s) ELSE {s}

\* Lines 312-316: args = json.loads(args_json), or {} on JSONDecodeError
\* (which is logged).
ParseArgs(s) == IF IsJson(s) THEN loads(s) ELSE {}

\* Lines 309-319: the next tool_call of the round is taken, its arguments
\* are parsed and it is handed to call_tool.
ToolDispatch ==
    /\ apc = "exec"
    /\ pc[Main] = "idle"
    /\ idx <= Len(tool_calls)
    /\ \E s \in ArgStrings :
          /\ args_json' = s
          /\ args' = ParseArgs(s)
    /\ method' = [method EXCEPT ![Main] = "tools/call"]
    /\ pc' = [pc EXCEPT ![Main] = "begin"]
    /\ UNCHANGED <<mode, splitVars, evalVars, textVars, retrieverVars, junk, registryVars, clientVars, req_id, waited, elapsed, ret, drops, expired, agentVars,
                   ops, turn, messages, tool_calls, idx, model_calls, batches, chat_result>>

\* The result is filed under the position of the tool_call, not its id.
ToolResultByPosition(call_id, outcome) == ToolTurn(idx, ToolText(outcome))

\* Lines 322-328: the tool's result is appended for the tool_call just run.
ToolResult(call_id, outcome) == ToolTurn(call_id, ToolText(outcome))

\* Lines 319-328 and the end of the for loop: call_tool has returned, its
\* result is appended; after the last tool_call the while loop goes on.
ToolAppend ==
    /\ apc = "exec"
    /\ pc[Main] = "returned"
    /\ ret[Main].kind # "raised"
    /\ messages' = append(messages, ToolResult(tool_calls[idx], ret[Main]))
    /\ idx' = idx + 1
    /\ pc' = [pc EXCEPT ![Main] = "idle"]
    /\ apc' = IF idx + 1 > Len(tool_calls) THEN "loop" ELSE "exec"
    /\ UNCHANGED <<mode, splitVars, evalVars, textVars, retrieverVars, junk, registryVars, clientVars, req_id, method, waited, elapsed, ret, drops, expired,
                   mcp_client, mcp_enabled, init_resp, ops, turn, tool_calls,
                   model_calls, batches, chat_result, args_json, args>>

\* Lines 319 and 338-340: call_tool raised; the exception is logged and
\* re-raised to the caller of chat_with_tools.
ToolRaise ==
    /\ apc = "exec"
    /\ pc[Main] = "returned"
    /\ ret[Main].kind = "raised"
    /\ chat_result' = "raised"
    /\ apc' = "done"
    /\ pc' = [pc EXCEPT ![Main] = "idle"]
    /\ UNCHANGED <<mode, splitVars, evalVars, textVars, retrieverVars, junk, registryVars, clientVars, req_id, method, waited, elapsed,
                   ret, drops, expired, mcp_client, mcp_enabled, init_resp, ops, turn,
                   messages, tool_calls, idx, model_calls, batches, args_json, args>>

\* What chat_with_tools hands to its caller (lines 336, 340, 342, and 270
\* in the fallback): the model's text, the exception, or the limit's text.
ReturnValue ==
    CASE chat_result = "final"  -> "answer"
      [] chat_result = "limit"  -> "Error: Maximum conversation turns exceeded."
      [] chat_result = "raised" -> "<exception>"
      [] OTHER                  -> "<running>"

\* Agent.close (lines 344-346) with MCPClient.close (lines 206-208): the
\* subprocess is asked to terminate, if the Agent holds a client.
AgentClose ==
    /\ mode \in AgentModes
    /\ apc = "done"
    /\ apc' = "closed"
    /\ proc' = IF mcp_client /\ proc = "running" THEN "exited" ELSE proc
    /\ UNCHANGED <<mode, splitVars, evalVars, textVars, retrieverVars, junk, registryVars, reader, request_id, response_queue, wire, lines_out,
                   callVars, mcp_client, mcp_enabled, init_resp, ops, chatVars>>

-----------------------------------------------------------------------------
(* The tool registry's schema operations on their own (SchemaSpec) *)

\* Line 285: tools_schema = self.mcp_client.get_openai_tools_schema()
SchemaBuild ==
    /\ mode = "schema"
    /\ apc = "new"
    /\ tools_schema' = get_openai_tools_schema(tools)
    /\ apc' = "schema"
    /\ UNCHANGED <<mode, splitVars, evalVars, textVars, retrieverVars, junk, tools, allowed_tools, clientVars, callVars, mcp_client,
                   mcp_enabled, init_resp, ops, chatVars>>

\* The schema of a session with an allow-list: the filtered registry is
\* mapped to the model's schema.
SchemaFiltered ==
    /\ mode = "schema"
    /\ apc = "new"
    /\ tools_schema' = get_openai_tools_schema(filter(tools, allowed_tools))
    /\ apc' = "filtered"
    /\ UNCHANGED <<mode, splitVars, evalVars, textVars, retrieverVars, junk, tools, allowed_tools, clientVars, callVars, mcp_client,
                   mcp_enabled, init_resp, ops, chatVars>>

-----------------------------------------------------------------------------
(* Retriever.fetch_and_save / fetch_article_content, per retrieval task *)

Tasks == 1..MaxTasks
NoTask == 0
\* The tasks of MediumRetriever.run, one for each article it is given.
Articles == 1..MaxArticles
\* The per-task variables are kept for every task of either harness.
TaskIds == Tasks \cup Articles

\* The harnesses that run retrieval tasks: fetch_and_save called on one
\* Retriever by tasks of any origin, and the tasks of MediumRetriever.run.
RetrieverModes == {"retriever", "medium"}

\* The lock is taken whether or not it is held.
FreeAlways == TRUE

\* asyncio.Lock.acquire takes the lock at once when it is not held and no
\* task is waiting for it; otherwise the task queues up.
Free == lock = NoTask /\ waiters = <<>>

-----------------------------------------------------------------------------
(* Translator._split_text_smart, src/translate.py lines 60-85 *)

\* The blank line between two paragraphs.
ParagraphBreak == <<"\n", "\n">>

\* The position of the first "\n\n" in str, or 0.
RECURSIVE find(_, _)
find(str, from) ==
    IF from >= Len(str) THEN 0
    ELSE IF str[from] = "\n" /\ str[from + 1] = "\n" THEN from
    ELSE find(str, from + 1)

\* Line 65: text.split('\n\n'), the parts between the occurrences of the
\* separator, found from left to right.
RECURSIVE split(_)
split(str) ==
    LET at == find(str, 1) IN
        IF at = 0 THEN <<str>>
        ELSE <<SubSeq(str, 1, at - 1)>> \o split(SubSeq(str, at + 2, Len(str)))

\* The separator is not counted.
p_len_bare(p) == Len(p)

\* Line 71: p_len = len(p) + 2
p_len(p) == Len(p) + 2

\* Lines 74-75 / 82-83: if current_chunk: chunks.append("\n\n".join(current_chunk))
flush(done, current_chunk) ==
    IF current_chunk # <<>> THEN Append(done, join(ParagraphBreak, current_chunk)) ELSE done

\* Lines 70-85: the loop from paragraph k on, and what is returned.
RECURSIVE split_loop(_, _, _, _, _, _)
split_loop(paragraphs, k, limit, done, current_chunk, current_len) ==
    IF k > Len(paragraphs) THEN flush(done, current_chunk)
    ELSE LET p == paragraphs[k] IN
         IF current_len + p_len(p) > limit
            THEN split_loop(paragraphs, k + 1, limit, flush(done, current_chunk), <<p>>, p_len(p))
            ELSE split_loop(paragraphs, k + 1, limit, done, Append(current_chunk, p),
                            current_len + p_len(p))

\* Lines 60-85: Translator._split_text_smart(text, max_length)
split_text_smart(str, limit) ==
    IF Len(str) <= limit THEN <<str>>
    ELSE split_loop(split(str), 1, limit, <<>>, <<>>, 0)

\* The texts handed to it: letters and newlines.
Chars == {"x", "\n"}
SourceTexts == UNION {[1..n -> Chars] : n \in 0..MaxTextLen}

\* Nothing was returned yet (what is returned has at least one chunk).
NoChunks == <<>>

\* translate_content, line 93: the text is split.
SplitApply ==
    /\ mode = "split"
    /\ chunks = NoChunks
    /\ chunks' = split_text_smart(source_text, max_length)
    /\ UNCHANGED <<mode, source_text, max_length, evalVars, textVars, retrieverVars, junk, registryVars, clientVars, callVars, agentVars, ops, chatVars>>

-----------------------------------------------------------------------------
(* evaluate_article, src/eval.py lines 99-121 and src/article-eval.py 113-135 *)

\* What yaml.safe_load makes of a text: a mapping with a "score" key, a
\* mapping without one, something that is no mapping (a scalar, a list,
\* nothing), or an exception.
YamlKinds == {"scored", "unscored", "scalar", "error"}

\* A text the model returns: whether it holds a fenced block (```yaml or
\* plain ```), what the inside of the first such block loads as, and what
\* the whole text loads as (a text with a fence is no YAML document).
Output(fence, block, whole) == [fence |-> fence, block |-> block, whole |-> whole]
Outputs ==
    {Output("none", Absent, whole) : whole \in YamlKinds}
        \cup {Output(fence, block, "error") : fence \in {"yaml", "plain"}, block \in YamlKinds}
NoOutput == Output("none", Absent, Absent)

\* Lines 69-79: extract_yaml_from_text, as what the extracted text loads as
extract_yaml_from_text(out) == IF out.fence # "none" THEN out.block ELSE out.whole

\* Lines 82-91: validate_yaml, its first component
validate_yaml(out) == extract_yaml_from_text(out) = "scored"

\* The entries of evaluate_article's list.
PROMPT_EVALUATION_SYSTEM == [role |-> "system", content |-> NoOutput, says |-> "evaluation"]
Article == [role |-> "user", content |-> NoOutput, says |-> "article"]
PROMPT_RETRY_FORMAT_ERROR == [role |-> "user", content |-> NoOutput, says |-> "format error"]
Assistant(out) == [role |-> "assistant", content |-> out, says |-> "output"]

\* The two programs that define evaluate_article.
Scripts == {"eval.py", "article-eval.py"}

\* Lines 101-106: the list is built and handed to the model (agent.achat /
\* agent.chat).
EvalCall ==
    /\ mode = "eval"
    /\ epc = "start"
    /\ eval_messages' = <<PROMPT_EVALUATION_SYSTEM, Article>>
    /\ eval_calls' = Append(eval_calls, eval_messages')
    /\ epc' = "first"
    /\ UNCHANGED <<mode, splitVars, script, retry, content_out, eval_ret, textVars, retrieverVars, junk, registryVars, clientVars, callVars, agentVars, ops, chatVars>>

\* Lines 106-117: the first call returns a text: it is validated, and
\* either it is returned, or the list is extended and handed to the model
\* a second time.
EvalFirstOutput ==
    /\ epc = "first"
    /\ \E out \in Outputs :
          /\ content_out' = out
          /\ IF ~validate_yaml(out) /\ retry
                THEN /\ eval_messages' =
                           Append(Append(eval_messages, Assistant(out)), PROMPT_RETRY_FORMAT_ERROR)
                     /\ eval_calls' = Append(eval_calls, eval_messages')
                     /\ epc' = "second"
                     /\ UNCHANGED eval_ret
                ELSE /\ eval_ret' = out
                     /\ epc' = "returned"
                     /\ UNCHANGED <<eval_messages, eval_calls>>
    /\ UNCHANGED <<mode, splitVars, script, retry, textVars, retrieverVars, junk, registryVars, clientVars, callVars, agentVars, ops, chatVars>>

\* The second text is validated like the first, and an invalid one is
\* handed back to the model once more.
EvalSecondOutputRetrying ==
    /\ epc = "second"
    /\ \E out \in Outputs :
          /\ content_out' = out
          /\ IF ~validate_yaml(out) /\ retry
                THEN /\ eval_messages' =
                           Append(Append(eval_messages, Assistant(out)), PROMPT_RETRY_FORMAT_ERROR)
                     /\ eval_calls' = Append(eval_calls, eval_messages')
                     /\ UNCHANGED <<epc, eval_ret>>
                ELSE /\ eval_ret' = out
                     /\ epc' = "returned"
                     /\ UNCHANGED <<eval_messages, eval_calls>>
    /\ UNCHANGED <<mode, splitVars, script, retry, textVars, retrieverVars, junk, registryVars, clientVars, callVars, agentVars, ops, chatVars>>

\* Lines 115-117: the second call returns a text, which is returned.
EvalSecondOutput ==
    /\ epc = "second"
    /\ \E out \in Outputs :
          /\ content_out' = out
          /\ eval_ret' = out
    /\ epc' = "returned"
    /\ UNCHANGED <<mode, splitVars, script, retry, eval_messages, eval_calls, textVars, retrieverVars, junk, registryVars, clientVars, callVars, agentVars, ops, chatVars>>

\* Lines 119-121 / 133-135: a call raises; eval.py logs it and returns
\* None, article-eval.py logs it and ends the program (sys.exit(1)).
EvalRaise ==
    /\ epc \in {"first", "second"}
    /\ epc' = IF script = "eval.py" THEN "returned" ELSE "exited"
    /\ UNCHANGED <<mode, splitVars, script, retry, eval_messages, eval_calls, content_out, eval_ret, textVars, retrieverVars, junk, registryVars, clientVars, callVars, agentVars, ops, chatVars>>

-----------------------------------------------------------------------------
(* File names and files, Retriever.sanitize_filename / save_article_to_file *)

\* str.replace of one character by another
replace(str, old, new) == [i \in 1..Len(str) |-> IF str[i] = old THEN new ELSE str[i]]

\* A string is a sequence of characters; the two dashes that line 71
\* replaces (U+2014, U+2013) are written by their names.
EmDash == "<em dash>"
EnDash == "<en dash>"

\* The characters \w matches, of those that titles are made of here.
WordChars == {"a", "b", "_"}

\* Line 74: re.sub(r"[^\w\-]", "_", name)
sub_unsafe(str) ==
    [i \in 1..Len(str) |-> IF str[i] \in WordChars \cup {"-"} THEN str[i] ELSE "_"]

\* Line 77: re.sub(r"_+", "_", safe_name)
RECURSIVE sub_runs(_)
sub_runs(str) ==
    IF Len(str) <= 1 THEN str
    ELSE IF str[1] = "_" /\ str[2] = "_" THEN sub_runs(Tail(str))
    ELSE <<str[1]>> \o sub_runs(Tail(str))

\* Line 80: str.strip("_")
RECURSIVE strip(_)
strip(str) ==
    IF str = <<>> THEN str
    ELSE IF str[1] = "_" THEN strip(Tail(str))
    ELSE IF str[Len(str)] = "_" THEN strip(SubSeq(str, 1, Len(str) - 1))
    ELSE str

\* Lines 68-80: Retriever.sanitize_filename
sanitize_filename(name) ==
    LET safe == strip(sub_runs(sub_unsafe(
                    replace(replace(replace(name, " ", "_"), EmDash, "_"), EnDash, "_"))))
    IN  SubSeq(safe, 1, IF Len(safe) < NameLimit THEN Len(safe) ELSE NameLimit)

\* The titles of the articles: two that differ and give the same file
\* name, and one with a file name of its own.
Titles == {<<"a", " ", "b">>, <<"a", "/", "b">>, <<"b">>}
\* The file name of every title, computed once.
FileNameOf == [name \in Titles |-> sanitize_filename(name)]
FileNames == {FileNameOf[name] : name \in Titles}

\* What is in a file: nothing (there is no such file), the article a task
\* saved, an article saved before the tasks started, or the beginning of an
\* article whose writing failed.
NoFile == 0
Old == -1
Partial == -2

\* Lines 465 / 101: f"{self.sanitize_filename(title)}{suffix}.md", suffix ""
original_filename(t) == FileNameOf[title[t]]

\* Lines 104 / 471: os.path.exists(filepath)
exists(f) == files[f] # NoFile

\* range(n), including n
rangeInclusive(n) == 0..n

\* Line 479: range(max_retries)
range(n) == 0..(n - 1)

\* The file is written whether or not it is there.
save_article_to_file_overwriting(t) ==
    /\ files' = [files EXCEPT ![original_filename(t)] = t]
    /\ saved' = [saved EXCEPT ![t] = "True"]

\* Lines 82-123: save_article_to_file(title, url, category, content, ...)
\* for the article of task t: an existing file is left alone; otherwise the
\* file is written, or writing it raises, which may leave no file or the
\* beginning of one.
save_article_to_file(t) ==
    LET f == original_filename(t) IN
        IF exists(f)
           THEN /\ saved' = [saved EXCEPT ![t] = "False"]
                /\ UNCHANGED files
           ELSE \/ /\ files' = [files EXCEPT ![f] = t]
                   /\ saved' = [saved EXCEPT ![t] = "True"]
                \/ /\ \E left \in {NoFile, Partial} : files' = [files EXCEPT ![f] = left]
                   /\ saved' = [saved EXCEPT ![t] = "False"]

\* Lines 337-358: what _detect_language makes of the content
Langs == {"zh", "en", "other"}

\* How one fetch_article_content leaves its locked region: the conversation
\* raised (lines 226-228), the content found failed validation (209-211,
\* 221-223), or content was returned (213-214, 219-220).
Exits == {"raised", "invalid", "content"}

\* fetch_and_save, lines 480-485, into fetch_article_content, line 131:
\* the next attempt enters `async with self._lock`; the task goes on into
\* the conversation or waits for the lock.
FetchAcquire(t) ==
    /\ mode \in RetrieverModes
    /\ fpc[t] = "ready"
    /\ attempt[t] \in range(max_retries)
    /\ attempt[t] = 0 => ~exists(original_filename(t))
    /\ attempt' = [attempt EXCEPT ![t] = attempt[t] + 1]
    /\ IF Free
          THEN /\ lock' = t
               /\ fpc' = [fpc EXCEPT ![t] = "chat"]
               /\ UNCHANGED waiters
          ELSE /\ waiters' = Append(waiters, t)
               /\ fpc' = [fpc EXCEPT ![t] = "waiting"]
               /\ UNCHANGED lock
    /\ UNCHANGED <<mode, splitVars, evalVars, textVars, fetched, sem, sem_waiters, rpc, files, title, saved, fret, junk, registryVars, clientVars, callVars, agentVars, ops, chatVars>>

\* fetch_and_save, lines 471-473: the original file is there already and
\* nothing is fetched.
FetchSkip(t) ==
    /\ mode \in RetrieverModes
    /\ fpc[t] = "ready"
    /\ attempt[t] = 0
    /\ exists(original_filename(t))
    /\ fpc' = [fpc EXCEPT ![t] = "returned"]
    /\ fret' = [fret EXCEPT ![t] = "True"]
    /\ UNCHANGED <<mode, splitVars, evalVars, textVars, lock, waiters, attempt, fetched, sem, sem_waiters, rpc, files, title, saved, junk, registryVars, clientVars, callVars, agentVars, ops, chatVars>>

\* Lines 131-228 and 487-507: achat_with_tools_full has returned or raised,
\* the content is extracted and validated, and the `async with` block is
\* left: the lock is released and the first waiting task is woken with it.
\* With content, fetch_and_save detects its language and saves it, and
\* returns; without, it tries again (after a sleep) or gives up.  No other
\* task runs between the release of the lock and the return or the sleep.
FetchLeave(t) ==
    /\ fpc[t] = "chat"
    /\ \E exit \in Exits :
          /\ fetched' = [fetched EXCEPT ![t] = exit]
          /\ fpc' = [u \in TaskIds |->
                       IF u = t
                          THEN (IF exit # "content" /\ attempt[t] \in range(max_retries)
                                   THEN "ready" ELSE "returned")
                       ELSE IF waiters # <<>> /\ u = Head(waiters) THEN "chat"
                       ELSE fpc[u]]
          /\ IF exit = "content"
                THEN \E lang \in Langs :
                       IF lang = "other"
                          THEN /\ fret' = [fret EXCEPT ![t] = "False"]
                               /\ UNCHANGED <<files, saved>>
                          ELSE /\ save_article_to_file(t)
                               /\ fret' = [fret EXCEPT ![t] = "True"]
                ELSE /\ fret' = [fret EXCEPT ![t] =
                                   IF attempt[t] \in range(max_retries) THEN fret[t] ELSE "False"]
                     /\ UNCHANGED <<files, saved>>
    /\ lock' = IF waiters = <<>> THEN NoTask ELSE Head(waiters)
    /\ waiters' = IF waiters = <<>> THEN <<>> ELSE Tail(waiters)
    /\ UNCHANGED <<mode, splitVars, evalVars, textVars, attempt, sem, sem_waiters, rpc, title, junk, registryVars, clientVars, callVars, agentVars, ops, chatVars>>

-----------------------------------------------------------------------------
(* MediumRetriever.run and fetch_with_sem *)

\* The tasks created so far.
Created == {t \in Articles : fpc[t] # "none"}

\* Lines 96-107 (117-118 with 66-80): asyncio.create_task for the next
\* article; the task does not start before run awaits.
RunCreateTask ==
    /\ mode = "medium"
    /\ rpc = "creating"
    /\ \E t \in Articles :
          /\ Created = 1..(t - 1)
          /\ fpc' = [fpc EXCEPT ![t] = "created"]
    /\ UNCHANGED <<mode, splitVars, evalVars, textVars, lock, waiters, attempt, fetched, sem, sem_waiters, rpc, files, title, saved, fret, junk, registryVars, clientVars, callVars, agentVars, ops, chatVars>>

\* Lines 123-128: with tasks, run awaits asyncio.gather(*tasks); with
\* none, it is done.
RunGather ==
    /\ mode = "medium"
    /\ rpc = "creating"
    /\ rpc' = IF Created # {} THEN "gather" ELSE "done"
    /\ UNCHANGED <<mode, splitVars, evalVars, textVars, lock, waiters, fpc, attempt, fetched, sem, sem_waiters, files, title, saved, fret, junk, registryVars, clientVars, callVars, agentVars, ops, chatVars>>

\* A permit is handed out whether or not one is free.
PermitFreeAlways == TRUE

\* asyncio.Semaphore.acquire takes a permit at once when one is free and no
\* task is waiting for one; otherwise the task queues up.
PermitFree == sem > 0 /\ sem_waiters = <<>>

\* fetch_with_sem, line 52: the task starts and enters `async with sem`.
SemAcquire(t) ==
    /\ mode = "medium"
    /\ rpc = "gather"
    /\ fpc[t] = "created"
    /\ IF PermitFree
          THEN /\ sem' = sem - 1
               /\ fpc' = [fpc EXCEPT ![t] = "ready"]
               /\ UNCHANGED sem_waiters
          ELSE /\ sem_waiters' = Append(sem_waiters, t)
               /\ fpc' = [fpc EXCEPT ![t] = "sem_waiting"]
               /\ UNCHANGED sem
    /\ UNCHANGED <<mode, splitVars, evalVars, textVars, lock, waiters, attempt, fetched, rpc, files, title, saved, fret, junk, registryVars, clientVars, callVars, agentVars, ops, chatVars>>

\* fetch_with_sem, lines 52-53: fetch_and_save has returned and the
\* `async with sem` block is left: the permit is released and the first
\* waiting task is woken with it.  The task is done; what fetch_and_save
\* returned is dropped with the task's frame.
SemRelease(t) ==
    /\ mode = "medium"
    /\ fpc[t] = "returned"
    /\ attempt' = [attempt EXCEPT ![t] = 0]
    /\ fetched' = [fetched EXCEPT ![t] = "none"]
    /\ saved' = [saved EXCEPT ![t] = "none"]
    /\ fret' = [fret EXCEPT ![t] = "none"]
    /\ fpc' = [u \in TaskIds |->
                 IF u = t THEN "done"
                 ELSE IF sem_waiters # <<>> /\ u = Head(sem_waiters) THEN "ready"
                 ELSE fpc[u]]
    /\ sem' = IF sem_waiters = <<>> THEN sem + 1 ELSE sem
    /\ sem_waiters' = IF sem_waiters = <<>> THEN <<>> ELSE Tail(sem_waiters)
    /\ UNCHANGED <<mode, splitVars, evalVars, textVars, lock, waiters, rpc, files, title, junk, registryVars, clientVars, callVars, agentVars, ops, chatVars>>

\* Lines 125-126: every task is done, so the gather returns.
RunGathered ==
    /\ mode = "medium"
    /\ rpc = "gather"
    /\ \A t \in Created : fpc[t] = "done"
    /\ rpc' = "done"
    /\ UNCHANGED <<mode, splitVars, evalVars, textVars, lock, waiters, fpc, attempt, fetched, sem, sem_waiters, files, title, saved, fret, junk, registryVars, clientVars, callVars, agentVars, ops, chatVars>>

Chat == ChatFallback \/ ChatStart \/ ChatTurn \/ ChatTurnLimit \/ ToolDispatch \/ ToolAppend

-----------------------------------------------------------------------------
(* Specifications *)

InitState(m, ts, allowed) ==
    /\ mode = m
    /\ text_content = NoTextContent
    /\ proc = "none"
    /\ reader = "none"
    /\ request_id = 0
    /\ response_queue = <<>>
    /\ wire = <<>>
    /\ lines_out = 0
    /\ junk = 0
    /\ tools = ts
    /\ allowed_tools = allowed
    /\ tools_schema = <<>>
    /\ pc = [t \in Threads |-> "idle"]
    /\ req_id = [t \in Threads |-> None]
    /\ method = [t \in Threads |-> "tools/list"]
    /\ waited = [t \in Threads |-> 0]
    /\ elapsed = [t \in Threads |-> 0]
    /\ ret = [t \in Threads |-> NoOutcome]
    /\ drops = [t \in Threads |-> {}]
    /\ expired = {}
    /\ apc = "new"
    /\ mcp_client = FALSE
    /\ mcp_enabled = FALSE
    /\ init_resp = NoMsg
    /\ ops = 0
    /\ turn = 0
    /\ messages = <<>>
    /\ tool_calls = <<>>
    /\ idx = 0
    /\ model_calls = 0
    /\ batches = 0
    /\ args_json = "{}"
    /\ args = {}
    /\ chat_result = "none"
    /\ lock = NoTask
    /\ waiters = <<>>
    /\ fpc = [t \in TaskIds |-> IF m = "medium" \/ t \notin Tasks THEN "none" ELSE "ready"]
    /\ attempt = [t \in TaskIds |-> 0]
    /\ fetched = [t \in TaskIds |-> "none"]
    /\ sem = CONCURRENCY_LIMIT
    /\ sem_waiters = <<>>
    /\ rpc = IF m = "medium" THEN "creating" ELSE "none"
    /\ saved = [t \in TaskIds |-> "none"]
    /\ fret = [t \in TaskIds |-> "none"]
    /\ chunks = NoChunks
    /\ epc = "start"
    /\ eval_messages = <<>>
    /\ eval_calls = <<>>
    /\ content_out = NoOutput
    /\ eval_ret = NoOutput

\* No article was saved today, and the tasks are given two articles in
\* turn.
NoArticles ==
    /\ files = [f \in FileNames |-> NoFile]
    /\ title = [t \in TaskIds |-> IF t % 2 = 1 THEN <<"a", " ", "b">> ELSE <<"b">>]

\* No article is being evaluated, and no text is being split.
NoEvaluation ==
    /\ script = "eval.py"
    /\ retry = TRUE
    /\ source_text = <<>>
    /\ max_length = 0

InitMode(m) ==
    content = <<>> /\ NoArticles /\ NoEvaluation /\ InitState(m, <<>>, NoAllowList)

Subprocess == read_loop \/ ProcExit \/ read_loop_exit

Construct ==
    \/ AgentInitNoClient
    \/ MCPClientStart
    \/ InitializeSend
    \/ InitializeGet
    \/ InitializeTimeout
    \/ AgentInitPreloaded

Call(t) == CallBegin(t) \/ CallSend(t) \/ CallGet(t) \/ CallTimeout(t)

Init == InitMode("agent")
Next == read_loop \/ read_loop_exit \/ Construct \/ Call(Main) \/ Chat \/ AgentClose
Spec == Init /\ [][Next]_vars

\* Every thread that can take a step eventually takes one.
FairSpec == Spec /\ WF_vars(Next)

\* The same Agent, with a subprocess that may end by itself at any time
\* and may print responses of any shape.
CrashInit == InitMode("crash")
CrashNext == Next \/ ProcExit \/ AgentInitPreloadRaised \/ ToolRaise
CrashSpec == CrashInit /\ [][CrashNext]_vars
FairCrashSpec == CrashSpec /\ WF_vars(CrashNext)

ClientInit == InitMode("client")
ClientNext == Subprocess \/ Construct \/ Call(Main) \/ CallerStart(Main) \/ Tick
ClientSpec == ClientInit /\ [][ClientNext]_vars

\* The same caller without the clock, with a subprocess that may print
\* responses of any shape.
DirectInit == InitMode("direct")
DirectNext ==
    Subprocess \/ Construct \/ AgentInitPreloadRaised \/ Call(Main) \/ CallerStart(Main)
        \/ ClientClose
DirectSpec == DirectInit /\ [][DirectNext]_vars
FairDirectSpec == DirectSpec /\ WF_vars(DirectNext)

ConcInit == InitMode("conc")
ConcNext == read_loop \/ Construct \/ (\E t \in Threads : Call(t) \/ CallerStart(t))
ConcSpec == ConcInit /\ [][ConcNext]_vars

SchemaInit ==
    /\ content = <<>>
    /\ NoArticles
    /\ NoEvaluation
    /\ \E ts \in ToolLists, allowed \in AllowLists : InitState("schema", ts, allowed)
SchemaNext == SchemaBuild \/ SchemaFiltered
SchemaSpec == SchemaInit /\ [][SchemaNext]_vars

\* The Agent of Spec with the echo server as its subprocess.
EchoInit == InitMode("echo")
EchoSpec == EchoInit /\ [][Next]_vars

\* call_tool's text extraction on any list of content blocks.
TextInit ==
    content \in Contents /\ NoArticles /\ NoEvaluation /\ InitState("text", <<>>, NoAllowList)
TextNext == TextExtract
TextSpec == TextInit /\ [][TextNext]_vars

\* Retrieval tasks that fetch their articles at once on one Retriever; the
\* event loop keeps running the tasks that can go on.
RetrieverInit == InitMode("retriever")
RetrieverNext == \E t \in Tasks : FetchSkip(t) \/ FetchAcquire(t) \/ FetchLeave(t)
RetrieverSpec == RetrieverInit /\ [][RetrieverNext]_vars
FairRetrieverSpec == RetrieverSpec /\ WF_vars(RetrieverNext)

\* The same tasks, given articles of any of the titles on a day on which
\* any of the files may have been saved before.
ArticleInit ==
    /\ content = <<>>
    /\ NoEvaluation
    /\ files \in [FileNames -> {NoFile, Old}]
    /\ title \in {titles \in [TaskIds -> Titles] :
                      \A t \in TaskIds \ Tasks : titles[t] = <<"b">>}
    /\ InitState("retriever", <<>>, NoAllowList)
ArticleSpec == ArticleInit /\ [][RetrieverNext]_vars

\* evaluate_article of either program, with or without retry, on an
\* article to which the model answers with any text or fails.
EvalInit ==
    /\ content = <<>>
    /\ source_text = <<>>
    /\ max_length = 0
    /\ script \in Scripts
    /\ retry \in BOOLEAN
    /\ NoArticles
    /\ InitState("eval", <<>>, NoAllowList)
EvalNext == EvalCall \/ EvalFirstOutput \/ EvalSecondOutput \/ EvalRaise
EvalSpec == EvalInit /\ [][EvalNext]_vars

\* _split_text_smart on any text of up to MaxTextLen characters and any
\* max_length up to MaxChunkLen.
SplitInit ==
    /\ content = <<>>
    /\ NoArticles
    /\ script = "eval.py"
    /\ retry = TRUE
    /\ source_text \in SourceTexts
    /\ max_length \in 0..MaxChunkLen
    /\ InitState("split", <<>>, NoAllowList)
SplitNext == SplitApply
SplitSpec == SplitInit /\ [][SplitNext]_vars

\* MediumRetriever.run inside `async with self.agent`, given up to
\* MaxArticles articles; the event loop keeps running the tasks that can go on.
MediumInit == InitMode("medium")
MediumNext ==
    \/ RunCreateTask
    \/ RunGather
    \/ RunGathered
    \/ \E t \in Articles :
          SemAcquire(t) \/ FetchSkip(t) \/ FetchAcquire(t) \/ FetchLeave(t) \/ SemRelease(t)
MediumSpec == MediumInit /\ [][MediumNext]_vars
FairMediumSpec == MediumSpec /\ WF_vars(MediumNext)

-----------------------------------------------------------------------------
(* Properties *)

Requests == {k \in 1..Len(wire) : wire[k].id # None}

\* C1: the request ids placed on the wire are strictly increasing, the
\* initialize request carries id 0, and so no id is issued twice, whatever
\* the outcome of the earlier calls was.
C1_IdsStrictlyIncreasing ==
    /\ \A i, j \in Requests : i < j => wire[i].id < wire[j].id
    /\ \A k \in Requests : wire[k].method = "initialize" => wire[k].id = 0

\* Four requests were written, one of the calls timed out, and the last
\* call has returned.
C1_Witness ==
    /\ Cardinality(Requests) >= 4
    /\ expired # {}
    /\ pc[Main] = "returned"

\* C2: when a waiting list_tools / call_tool dequeues a message whose id is
\* not its request id, the message is discarded and the call goes on
\* waiting with nothing else changed; when it dequeues the message with its
\* own id, it returns the outcome of that very message (or raises, if the
\* message lacks the member the call reads).
C2_UnmatchedDropped ==
    [][(/\ pc[Main] = "wait"
        /\ response_queue # <<>>
        /\ response_queue' = Tail(response_queue))
       => IF Head(response_queue).id = req_id[Main]
             THEN /\ pc'[Main] = "returned"
                  /\ ret'[Main].from = req_id[Main]
                  /\ ret'[Main].kind \in
                        {IF Head(response_queue).err THEN "error" ELSE "ok", "raised"}
                  /\ ret'[Main].kind = "raised" => Head(response_queue).body = "bad"
             ELSE /\ pc'[Main] = "wait"
                  /\ ret' = ret
                  /\ req_id' = req_id
                  /\ wire' = wire
                  /\ request_id' = request_id]_vars

\* A call discarded a notification and then returned the result of its own
\* response.
C2_Witness ==
    /\ pc[Main] = "returned"
    /\ None \in drops[Main]
    /\ ret[Main].kind = "ok"
    /\ ret[Main].from = req_id[Main]

\* C3: a call that returns its timeout outcome does so no later than its
\* timeout T after the request was sent.
C3_TimeoutWithinT ==
    \A t \in Threads :
        (pc[t] = "returned" /\ ret[t].kind = "timeout")
            => ret[t].elapsed <= TimeoutOf(method[t])

\* C4: a call returns a result only from a response that carries its own
\* request id, never from a response to a call that has timed out.
C4_NoStaleResult ==
    \A t \in Threads :
        (pc[t] = "returned" /\ ret[t].kind \in {"ok", "error"})
            => /\ ret[t].from = req_id[t]
               /\ ret[t].from \notin expired

\* A call that followed a timed-out call discarded the late response to
\* that call and returned the result of its own response.
C4_Witness ==
    /\ pc[Main] = "returned"
    /\ ret[Main].kind = "ok"
    /\ drops[Main] \cap expired # {}

\* C5: chat_with_tools makes at most max_turns model calls, and it ends
\* whatever the model answers (the subprocess printing finitely many lines).
C5_BoundedTurns ==
    /\ [](model_calls <= max_turns)
    /\ <>(chat_result # "none")

\* The model asked for a tool in every round and the loop ended at the limit.
C5_Witness ==
    /\ chat_result = "limit"
    /\ model_calls = max_turns
    /\ Len(SelectSeq(messages, LAMBDA m : m.role = "assistant")) = max_turns

\* C6: the tool results that follow an assistant's tool-call turn carry the
\* ids of its tool_calls, in the order in which the turn lists them.
C6_ResultsInRequestOrder ==
    \A k \in 1..Len(messages) :
        messages[k].role = "assistant" =>
            \A i \in 1..Len(messages[k].calls) :
                k + i <= Len(messages) =>
                    /\ messages[k + i].role = "tool"
                    /\ messages[k + i].tool_call_id = messages[k].calls[i]

\* A round of two tools listed as <<2, 1>>: the first call timed out, its
\* response arrived late, during the second call, and both results are in
\* the history.
C6_Witness ==
    /\ Len(messages) >= 4
    /\ messages[2].role = "assistant"
    /\ messages[2].calls = <<2, 1>>
    /\ messages[3].tool_call_id = 2
    /\ messages[3].content = "Error: Tool execution timed out."
    /\ messages[4].tool_call_id = 1
    /\ drops[Main] \cap expired # {}

\* The id of the initialize request(s) on the wire.
InitIds == {wire[k].id : k \in {n \in 1..Len(wire) : wire[n].method = "initialize"}}

\* C7: a tools/list or tools/call request is written only after the
\* initialize request was written, the response to that request was
\* received without error, and notifications/initialized was written; the
\* initialize request is written at most once.
C7_HandshakeBeforeTools ==
    /\ \A k \in 1..Len(wire) :
          wire[k].method \in Methods =>
             /\ \E i \in 1..(k - 1) :
                   wire[i].method = "initialize" /\ init_resp.id = wire[i].id
             /\ ~init_resp.err
             /\ \E j \in 1..(k - 1) : wire[j].method = "notifications/initialized"
    /\ Cardinality({k \in 1..Len(wire) : wire[k].method = "initialize"}) <= 1

\* The initialize call has failed: the message taken as its response
\* carries an error, or none came in time, or the message taken was not the
\* response and the response, which carries an error, has arrived since.
HandshakeFailed ==
    \/ init_resp.err
    \/ /\ init_resp = NoMsg
       /\ proc # "none"
       /\ apc \notin {"initialize", "handshake"}
    \/ /\ init_resp # NoMsg
       /\ init_resp.id \notin InitIds
       /\ \E k \in 1..Len(response_queue) :
             response_queue[k].err /\ response_queue[k].id \in InitIds

\* C8: once the initialize call has failed, nothing more is written to the
\* subprocess (no notifications/initialized, no tools/list, no tools/call)
\* and mcp_enabled stays false.
C8_InitFailureFatal ==
    [][HandshakeFailed => (wire' = wire /\ ~mcp_enabled')]_vars

\* C9: the handshake succeeds only on a response whose id is the id of the
\* initialize request; any other message taken as the response is fatal.
C9_StrictHandshakeId ==
    (init_resp # NoMsg /\ init_resp.id \notin InitIds)
        => /\ ~mcp_client
           /\ \A k \in 1..Len(wire) : wire[k].method = "initialize"

\* C10: two calls in flight at once carry distinct request ids, and neither
\* caller takes the response that carries the other caller's id.
C10_NoCrossTalk ==
    \A t, u \in Threads :
        (t # u /\ pc[t] = "wait" /\ pc[u] = "wait")
            => /\ req_id[t] # req_id[u]
               /\ req_id[u] \notin drops[t]

\* C11: a line that is not JSON is dropped by the reader: it is never put on
\* the queue, and the step that reads it only counts it as logged; the
\* reader thread keeps running and no caller's state changes, so a waiting
\* caller still takes its own response when that is read.
C11_NotJsonDropped ==
    [][/\ \A k \in 1..Len(response_queue') : response_queue'[k] # NotJson
       /\ junk' # junk =>
             /\ junk' = junk + 1
             /\ lines_out' = lines_out + 1
             /\ response_queue' = response_queue
             /\ reader' = "running"
             /\ proc' = proc
             /\ callVars' = callVars
             /\ agentVars' = agentVars]_vars

\* A line that was not JSON has been read and logged, and a call of the
\* direct caller has since returned the result of its own response.
C11_Witness ==
    /\ junk >= 1
    /\ ops >= 1
    /\ reader = "running"
    /\ pc[Main] = "returned"
    /\ ret[Main].kind = "ok"
    /\ ret[Main].from = req_id[Main]

\* The texts of the model that start with "Error:".
ErrorPrefixed == {"Error: Tool execution timed out.", "Error: remote"}

ToolTurns == {k \in 1..Len(messages) : messages[k].role = "tool"}

\* C12: when a tool invocation of chat_with_tools fails (the subprocess
\* answers with an error, or no response comes in time, also because the
\* write hit a broken pipe or only other messages arrived), the next step of
\* the conversation appends a tool turn for that invocation whose content
\* starts with "Error:", and the conversation goes on: with the next
\* invocation of the round, or with the loop head after the last one.
C12_ToolFailureBecomesResult ==
    [][(/\ apc = "exec"
        /\ pc[Main] = "returned"
        /\ ret[Main].kind \in {"error", "timeout"}
        /\ pc'[Main] # pc[Main])
       => /\ Len(messages') = Len(messages) + 1
          /\ SubSeq(messages', 1, Len(messages)) = messages
          /\ messages'[Len(messages')].role = "tool"
          /\ messages'[Len(messages')].tool_call_id = tool_calls[idx]
          /\ messages'[Len(messages')].content \in ErrorPrefixed
          /\ chat_result' = "none"
          /\ apc' = (IF idx < Len(tool_calls) THEN "exec" ELSE "loop")
          /\ idx' = idx + 1]_vars

\* One invocation was answered with an error, a later one timed out, one
\* request was lost to a broken pipe, and the model was called again and
\* asked for the next tool.
C12_Witness ==
    /\ \E i, j \in ToolTurns :
          /\ i < j
          /\ messages[i].content = "Error: remote"
          /\ messages[j].content = "Error: Tool execution timed out."
    /\ Cardinality({k \in 1..Len(wire) : wire[k].method = "tools/call"})
          < Cardinality(ToolTurns)
    /\ messages[Len(messages)].role = "assistant"
    /\ model_calls >= 3

\* The subprocess will print nothing more, and no message on the queue
\* carries the id the call_tool of the conversation is waiting for.
NoResponseComes ==
    /\ apc = "exec"
    /\ pc[Main] = "wait"
    /\ lines_out = LineBudget \/ proc # "running"
    /\ \A k \in 1..Len(response_queue) : response_queue[k].id # req_id[Main]

\* C13: when the subprocess never answers a tool invocation of the
\* conversation, call_tool ends with its timeout outcome, the tool turn
\* appended for the invocation carries the timeout text, and the
\* conversation reaches its next model call.
C13_TimeoutThenNextModelCall ==
    /\ [][(NoResponseComes /\ pc'[Main] # pc[Main])
             => /\ pc'[Main] = "returned"
                /\ ret'[Main].kind = "timeout"]_vars
    /\ [][(/\ apc = "exec"
           /\ pc[Main] = "returned"
           /\ ret[Main].kind = "timeout"
           /\ pc'[Main] # pc[Main])
             => messages' = Append(messages,
                                   ToolTurn(tool_calls[idx],
                                            "Error: Tool execution timed out."))]_vars
    /\ \A n \in 1..(max_turns - 1) :
          (NoResponseComes /\ model_calls = n) ~> (model_calls = n + 1)

\* The first tool invocation was never answered: its tool turn carries the
\* timeout text and the model has been called a second time.
C13_Witness ==
    /\ Len(messages) >= 3
    /\ messages[3] = ToolTurn(messages[2].calls[1], "Error: Tool execution timed out.")
    /\ \A k \in 1..Len(wire) : wire[k].method = "tools/call" => wire[k].id \in expired
    /\ Len(messages[2].calls) = 1
    /\ model_calls = 2

\* C14: when the first model response of the tool loop is a final answer,
\* chat_with_tools returns after that one model call with turn = 1, having
\* written no tools/call request and appended nothing to the history.
C14_FirstAnswerFinal ==
    (mcp_enabled /\ mcp_client /\ chat_result = "final" /\ model_calls = 1)
        => /\ turn = 1
           /\ ReturnValue = "answer"
           /\ messages = <<UserTurn>>
           /\ \A k \in 1..Len(wire) : wire[k].method # "tools/call"

\* The Agent has tools, and the model's first response was a final answer.
C14_Witness ==
    /\ mcp_enabled /\ mcp_client
    /\ tools_schema # <<>>
    /\ chat_result = "final"
    /\ model_calls = 1
    /\ apc = "done"

AssistantTurns == {k \in 1..Len(messages) : messages[k].role = "assistant"}

\* C15: once a model call of chat_with_tools has raised, the conversation
\* stays ended with that exception: no further model call is made (the call
\* is not retried) and nothing more is written to the subprocess.
C15_ModelErrorEndsChat ==
    [][chat_result = "raised"
          => /\ chat_result' = "raised"
             /\ model_calls' = model_calls
             /\ messages' = messages
             /\ wire' = wire
             /\ apc' \in {"done", "closed"}]_vars

\* The model asked for a tool, the tool ran, and the second model call
\* raised; the Agent has been closed since.
C15_Witness ==
    /\ chat_result = "raised"
    /\ model_calls = 2
    /\ Cardinality(ToolTurns) = 1
    /\ apc = "closed"

\* C16: chat_with_tools ends with the turn limit's text exactly when the
\* model asked for tools in all max_turns rounds and no exception ended the
\* conversation; max_turns model calls were made then, and the tools of the
\* last round were run and their results appended.
C16_TurnLimit ==
    /\ chat_result = "limit"
          => /\ ReturnValue = "Error: Maximum conversation turns exceeded."
             /\ model_calls = max_turns
             /\ turn = max_turns
             /\ Cardinality(AssistantTurns) = max_turns
             /\ \E k \in AssistantTurns :
                   /\ \A j \in AssistantTurns : j <= k
                   /\ Len(messages) = k + Len(messages[k].calls)
                   /\ \A i \in 1..Len(messages[k].calls) :
                         /\ messages[k + i].role = "tool"
                         /\ messages[k + i].tool_call_id = messages[k].calls[i]
    /\ (apc \in {"done", "closed"} /\ Cardinality(AssistantTurns) = max_turns
           /\ chat_result # "raised")
          => chat_result = "limit"
    /\ model_calls <= max_turns

\* The loop ended at the limit after ten rounds, the first of them with two
\* tools.
C16_Witness ==
    /\ chat_result = "limit"
    /\ Cardinality(AssistantTurns) = max_turns
    /\ Len(messages[2].calls) = 2
    /\ messages[Len(messages)].role = "tool"

\* The requests written for the call that thread t is in or has just left.
RequestsOf(t) ==
    {k \in 1..Len(wire) : wire[k].id = req_id[t] /\ wire[k].method = method[t]}

\* C17: a list_tools that has returned wrote its tools/list request once
\* (not at all only if the subprocess had exited); it returned the empty
\* list when the response carried an error, listed no tools, or did not come
\* in time; it returned the tools of the result, in their order, and cached
\* them otherwise; it raised only on a response without a result.
C17_ListTools ==
    \A t \in Threads :
        (pc[t] = "returned" /\ method[t] = "tools/list") =>
            /\ Cardinality(RequestsOf(t)) <= 1
            /\ RequestsOf(t) = {} => proc # "running"
            /\ ret[t].kind \in {"error", "timeout"} => ret[t].value = <<>>
            /\ (ret[t].kind = "ok" /\ ret[t].body = "empty")
                  => (ret[t].value = <<>> /\ tools = <<>>)
            /\ (ret[t].kind = "ok" /\ ret[t].body = "full")
                  => (ret[t].value = ServerTools /\ tools = ServerTools)
            /\ ret[t].kind = "raised" => ret[t].body = "bad"
            /\ ret[t].kind \in {"ok", "error", "timeout", "raised"}

\* A list_tools of the direct caller returned and cached the server's
\* tools, after an earlier list_tools had returned the empty list on a
\* timeout.
C17_Witness ==
    /\ pc[Main] = "returned"
    /\ method[Main] = "tools/list"
    /\ ops >= 1
    /\ ret[Main].value = ServerTools
    /\ tools = ServerTools
    /\ expired # {}

\* The name of the i-th function spec of the schema handed to the model.
SchemaName(i) == tools_schema[i].function.name

\* The positions of the cached tools that the allow-list lets through.
Allowed ==
    {i \in 1..Len(tools) : allowed_tools.given => tools[i].name \in allowed_tools.names}

C19_SchemaMapping ==
    [][apc' = "schema" =>
          /\ tools' = tools
          /\ Len(tools_schema') = Len(tools)
          /\ \A i \in 1..Len(tools) :
                /\ tools_schema'[i].type = "function"
                /\ tools_schema'[i].function.name = tools[i].name
                /\ tools_schema'[i].function.description =
                      (IF tools[i].description = Absent THEN "" ELSE tools[i].description)
                /\ tools_schema'[i].function.parameters =
                      (IF tools[i].inputSchema = NoSchema
                          THEN [type |-> "object", properties |-> {}]
                          ELSE tools[i].inputSchema)]_vars

\* The schema was built from two tools, the first without a description,
\* the second with a description and without an inputSchema.
C19_Witness ==
    /\ apc = "schema"
    /\ Len(tools) = 2
    /\ tools[1].description = Absent
    /\ tools[2].description # Absent
    /\ tools[2].inputSchema = NoSchema
    /\ tools_schema[1].function.description = ""
    /\ tools_schema[2].function.parameters.properties = {}

\* C20: a call whose write hit a broken pipe fails at once: on a client
\* whose handshake was answered, a call waits for a response only after its
\* request was written to the subprocess.
C20_BrokenPipeFailsCall ==
    \A t \in Threads :
        (init_resp.id \in InitIds /\ pc[t] = "wait") => RequestsOf(t) # {}

\* C21: during chat_with_tools the history is only ever extended at its
\* end: in every step, whatever way the conversation ends, the history
\* before the step is a prefix of the history after it.
C21_HistoryAppendOnly ==
    [][/\ Len(messages') >= Len(messages)
       /\ SubSeq(messages', 1, Len(messages)) = messages]_vars

\* A round of two tools: the first tool's result was appended, the second
\* call_tool raised, and the conversation ended with that exception.
C21_Witness ==
    /\ chat_result = "raised"
    /\ ret[Main].kind = "raised"
    /\ Len(messages) = 3
    /\ Len(messages[2].calls) = 2
    /\ messages[3].role = "tool"

\* C22: once the Agent that spawned a subprocess has been closed, whether or
\* not its handshake and its tool listing had succeeded, the subprocess has
\* been asked to terminate (and so the reader thread can stop).
C22_CloseTerminates ==
    (apc = "closed" /\ proc # "none") => proc = "exited"

\* No message on the queue carries the id thread t is waiting for.
NoneMatches(t) == \A k \in 1..Len(response_queue) : response_queue[k].id # req_id[t]

\* C23: a list_tools / call_tool that is waiting when the Agent is closed
\* does not wait forever: with the subprocess terminated and no response to
\* it left on the queue, the call can only end with its timeout outcome, and
\* it does return.
C23_PendingCallEndsAfterClose ==
    /\ [][(/\ apc = "closed"
           /\ proc = "exited"
           /\ pc[Main] = "wait"
           /\ NoneMatches(Main)
           /\ pc'[Main] # pc[Main])
             => /\ pc'[Main] = "returned"
                /\ ret'[Main].kind = "timeout"]_vars
    /\ (apc = "closed" /\ pc[Main] = "wait") ~> (pc[Main] = "returned")

\* The Agent was closed while a call_tool was waiting; the reader thread has
\* stopped and the call has returned its timeout outcome.
C23_Witness ==
    /\ apc = "closed"
    /\ reader = "stopped"
    /\ pc[Main] = "returned"
    /\ method[Main] = "tools/call"
    /\ ret[Main].kind = "timeout"
    /\ RequestsOf(Main) # {}
    /\ lines_out = 1

\* The tasks inside the locked region of fetch_article_content.
Inside == {t \in Tasks : fpc[t] = "chat"}

\* C24: of the retrieval tasks running at once on one Retriever at most one
\* is inside the locked region of fetch_article_content, and it is the one
\* holding the lock; a task that leaves the region, on whichever path, no
\* longer holds the lock; and a task waiting for the lock enters the region.
C24_BrowserRegionExclusive ==
    /\ [](Cardinality(Inside) <= 1 /\ \A t \in Inside : lock = t)
    /\ [][\A t \in Tasks : (fpc[t] = "chat" /\ fpc'[t] # "chat") => lock' # t]_vars
    /\ \A t \in Tasks : (fpc[t] = "waiting") ~> (fpc[t] = "chat")

\* One task left the region because its conversation raised, another
\* because its content failed validation, and a task that had to wait for
\* the lock is inside now while another one is waiting.
C24_Witness ==
    /\ \E t, u, w \in Tasks :
          /\ fetched[t] = "raised"
          /\ fetched[u] = "invalid"
          /\ fpc[w] = "chat"
          /\ lock = w
          /\ waiters # <<>>

\* C25: the reader is never held up by the callers: whenever the subprocess
\* has a line for it, the reader can take it and, if it is JSON, put it on
\* the queue, whatever is on the queue and whether or not a caller is
\* waiting; and once the subprocess has exited (its output closed), the
\* reader loop ends.
C25_ReaderNeverBlocked ==
    /\ []((reader = "running" /\ proc = "running" /\ lines_out < LineBudget)
             => ENABLED (read_loop /\ Len(response_queue') = Len(response_queue) + 1))
    /\ (proc = "exited") ~> (reader = "stopped")

\* The reader handed over two messages while no call was waiting for one,
\* and it has stopped since the subprocess exited.
C25_Witness ==
    /\ reader = "stopped"
    /\ Len(response_queue) >= 2
    /\ apc = "ready"
    /\ pc[Main] = "idle"
    /\ ops = 0

\* C26: with the echo server, whose answers to initialize (id 0, an empty
\* result) and to tools/list (one tool, echo) were received in time, the
\* handshake has succeeded once Agent.__init__ is done, the tools/list
\* request was written with id 1, and the registry holds exactly one tool,
\* named echo, which is also the one function of the model's schema.
C26_EchoScenario ==
    (/\ mode = "echo"
     /\ apc \notin {"new", "initialize", "handshake", "preload"}
     /\ init_resp = Reply(0, FALSE, "empty")
     /\ 1 \notin expired)
        => /\ mcp_client
           /\ mcp_enabled
           /\ Len(wire) >= 3
           /\ wire[1] = Req(0, "initialize")
           /\ wire[2] = Req(None, "notifications/initialized")
           /\ wire[3] = Req(1, "tools/list")
           /\ Len(tools) = 1
           /\ tools[1].name = "echo"
           /\ Len(get_openai_tools_schema(tools)) = 1
           /\ get_openai_tools_schema(tools)[1].function.name = "echo"

\* The Agent was built on the echo server, both answers were received, and
\* chat_with_tools has started with the schema of the one tool.
C26_Witness ==
    /\ mode = "echo"
    /\ init_resp = Reply(0, FALSE, "empty")
    /\ lines_out = 2
    /\ expired = {}
    /\ apc = "loop"
    /\ tools = <<EchoTool>>
    /\ Len(tools_schema) = 1
    /\ tools_schema[1].function = [name |-> "echo", description |-> "", parameters |-> EmptyObject]

\* The positions of the text blocks of the result.
TextBlocks == {i \in 1..Len(content) : content[i].type = "text"}

\* The text blocks' texts, each followed by a newline, in the blocks' order.
RECURSIVE TextLines(_)
TextLines(n) ==
    IF n = 0 THEN <<>>
    ELSE TextLines(n - 1)
            \o (IF n \in TextBlocks THEN content[n].text \o <<"\n">> ELSE <<>>)

\* C27: for a result whose blocks all have a type (and whose text blocks have
\* a text), call_tool does not raise and its text is made of the texts of
\* the text blocks alone, in the order of the blocks, with a newline between
\* one and the next; it is the empty text when there is no text block.
C27_TextBlocksOnly ==
    (text_content # NoTextContent /\ \A i \in 1..Len(content) : ~BlockRaises(content[i]))
        => /\ text_content.kind = "text"
           /\ TextBlocks = {} => text_content.text = <<>>
           /\ TextBlocks # {} => text_content.text \o <<"\n">> = TextLines(Len(content))

\* A result of a text block, an image block without text, and a second
\* text block: the text is the two texts, in that order.
C27_Witness ==
    /\ Len(content) = 3
    /\ content[1] = Block("text", TRUE, <<"b">>)
    /\ content[2] = Block("image", FALSE, NoText)
    /\ content[3] = Block("text", TRUE, <<"a">>)
    /\ text_content = [kind |-> "text", text |-> <<"b", "\n", "a">>]

\* C28: a tool_call whose arguments are not valid JSON is still executed:
\* call_tool is entered with an empty argument set, the tools/call request
\* it writes carries no argument, and when it has returned, a tool turn with
\* the tool_call's id is appended and the conversation goes on.
C28_BadArgumentsRunEmpty ==
    /\ []((apc = "exec" /\ pc[Main] # "idle" /\ ~IsJson(args_json))
             => /\ args = {}
                /\ method[Main] = "tools/call"
                /\ pc[Main] \in {"wait", "returned"} =>
                      \A k \in RequestsOf(Main) : wire[k].arguments = {})
    /\ [][(/\ apc = "exec"
           /\ pc[Main] = "returned"
           /\ ~IsJson(args_json)
           /\ pc'[Main] # pc[Main])
             => /\ messages' = Append(messages, ToolTurn(tool_calls[idx], ToolText(ret[Main])))
                /\ chat_result' = "none"
                /\ apc' \in {"exec", "loop"}]_vars

\* The first tool_call had arguments that are not JSON: its request was
\* written without arguments and answered, its result is in the history,
\* and the model has been called again.
C28_Witness ==
    /\ mode = "echo"
    /\ model_calls = 2
    /\ Cardinality(AssistantTurns) = 1
    /\ args_json = "not-json"
    /\ Len(messages) = 3
    /\ messages[3] = ToolTurn(messages[2].calls[1], "text")
    /\ \E k \in 1..Len(wire) : wire[k] = ToolReq(2, {})

\* C29: in the tool loop every model call that asked for tools put one
\* assistant turn into the history; an assistant turn is followed by the
\* results of its tool_calls, one for each, with their ids, in their order,
\* and then by the next assistant turn or the end of the history; results
\* are missing only while the round is being run (those of the tool_calls
\* not yet run) or after an exception has ended the conversation, so never
\* when the next model call is due.
C29_RoundAppendedBeforeNextCall ==
    /\ apc \in {"loop", "exec"} => model_calls = Cardinality(AssistantTurns)
    /\ Len(messages) >= 2 => messages[2].role = "assistant"
    /\ \A k \in AssistantTurns :
          LET n == Len(messages[k].calls) IN
              /\ \A i \in 1..n :
                    k + i <= Len(messages) =>
                        /\ messages[k + i].role = "tool"
                        /\ messages[k + i].tool_call_id = messages[k].calls[i]
              /\ k + n < Len(messages) => messages[k + n + 1].role = "assistant"
              /\ k + n > Len(messages) =>
                    \/ apc = "exec" /\ Len(messages) = k + idx - 1
                    \/ chat_result = "raised"

\* Two rounds are in the history, the first with two tools and its two
\* results, and the third model call is due.
C29_Witness ==
    /\ apc = "loop"
    /\ model_calls = 2
    /\ Len(messages) = 6
    /\ messages[2].calls = <<2, 1>>
    /\ messages[3].tool_call_id = 2
    /\ messages[4].tool_call_id = 1
    /\ messages[5].role = "assistant"
    /\ messages[6].role = "tool"

\* C30: when chat_with_tools is called on an Agent whose MCP is not
\* enabled, the call ends in one step: one model call is made, without a
\* tool schema and outside the tool loop, nothing is written to the
\* subprocess, the history is the one the caller passed, and the call
\* returns the model's text (or ends with the model call's exception).
C30_FallbackWithoutTools ==
    [][(/\ mode \in AgentModes
        /\ apc = "ready"
        /\ apc' # "ready"
        /\ ~(mcp_enabled /\ mcp_client))
       => /\ model_calls' = model_calls + 1
          /\ model_calls = 0
          /\ wire' = wire
          /\ tools_schema' = <<>>
          /\ messages' = <<UserTurn>>
          /\ turn' = 0
          /\ apc' = "done"
          /\ chat_result' \in {"final", "raised"}
          /\ chat_result' = "final" => ReturnValue' = "answer"]_vars

\* The handshake failed on an error response, and chat_with_tools returned
\* the text of its one model call; only the initialize request was written.
C30_Witness ==
    /\ init_resp.err
    /\ ~mcp_client
    /\ proc = "running"
    /\ chat_result = "final"
    /\ model_calls = 1
    /\ apc = "done"
    /\ messages = <<UserTurn>>
    /\ Len(wire) = 1

-----------------------------------------------------------------------------
(* The cached tool list *)

\* Thread t is in list_tools and the message it dequeues next is a
\* successful result for its request.
ListSucceeds(t) ==
    /\ pc[t] = "wait"
    /\ method[t] = "tools/list"
    /\ response_queue # <<>>
    /\ Head(response_queue).id = req_id[t]
    /\ ~Head(response_queue).err
    /\ Head(response_queue).body # "bad"

\* C31: a list_tools that ends without a successful tools/list result (on
\* its timeout, on an error response, or by raising on a response without
\* a result) leaves the cached tool list as it was, and the cached list
\* changes only in a step in which a list_tools takes a successful result,
\* to the tools that result lists.
C31_FailedListKeepsCache ==
    /\ [][\A t \in Threads :
            (/\ method[t] = "tools/list"
             /\ pc[t] = "wait"
             /\ pc'[t] = "returned"
             /\ ~ListSucceeds(t)) => tools' = tools]_vars
    /\ [][tools' # tools =>
            \E t \in Threads :
               /\ ListSucceeds(t)
               /\ pc'[t] = "returned"
               /\ tools' = ListedTools(Head(response_queue))]_vars

\* An earlier list_tools cached the server's tools; the caller's second one
\* has returned the empty list, on a timeout or an error response, and the
\* cache still holds the tools.
C31_Witness ==
    /\ mode = "direct"
    /\ ops = 2
    /\ pc[Main] = "returned"
    /\ method[Main] = "tools/list"
    /\ ret[Main].kind \in {"timeout", "error"}
    /\ ret[Main].value = <<>>
    /\ tools = ServerTools
    /\ Cardinality({k \in 1..Len(wire) : wire[k].method = "tools/list"}) = 3

-----------------------------------------------------------------------------
(* The tasks of MediumRetriever.run *)

\* The tasks inside `async with sem`: they hold a permit and run
\* fetch_and_save.
Running == {t \in Articles : fpc[t] \notin {"none", "created", "sem_waiting", "done"}}

\* The tasks inside the locked region of fetch_article_content.
Fetching == {t \in Articles : fpc[t] = "chat"}

\* C32: in MediumRetriever.run at most CONCURRENCY_LIMIT = 3 tasks run
\* fetch_and_save at the same time, each on a permit of the semaphore, and
\* at most one of them is inside the locked region, the one holding the
\* lock; while the gather is awaited and a task is not done yet, some task
\* can take a step (no deadlock); and, every conversation ending, the
\* gather returns, which it does only when every task that was created is
\* done.
C32_BoundedTasksComplete ==
    /\ [](/\ Cardinality(Running) <= CONCURRENCY_LIMIT
          /\ Cardinality(Running) + sem = CONCURRENCY_LIMIT
          /\ Cardinality(Fetching) <= 1
          /\ \A t \in Fetching : lock = t)
    /\ []((rpc = "gather" /\ \E t \in Created : fpc[t] # "done")
             => ENABLED (\E t \in Articles :
                            \/ SemAcquire(t) \/ FetchSkip(t) \/ FetchAcquire(t)
                            \/ FetchLeave(t) \/ SemRelease(t)))
    /\ [](rpc = "done" => \A t \in Created : fpc[t] = "done")
    /\ (rpc \in {"creating", "gather"}) ~> (rpc = "done")

\* The gather is awaited on four tasks: three hold the permits, one of them
\* is inside the locked region and the other two wait for the lock, and the
\* fourth waits for a permit.
C32_Witness ==
    /\ rpc = "gather"
    /\ Cardinality(Running) = CONCURRENCY_LIMIT
    /\ sem = 0
    /\ Len(sem_waiters) = 1
    /\ Cardinality(Fetching) = 1
    /\ Len(waiters) = 2
    /\ \A t \in Running : t = lock \/ fpc[t] = "waiting"

-----------------------------------------------------------------------------
(* fetch_and_save and the files *)

\* C33: fetch_and_save makes at most max_retries = 3 fetch attempts; after
\* an attempt that yielded content it makes no further one; while it is
\* between two attempts it neither holds the lock nor waits for it; it
\* returns without content only after its third attempt, and then returns
\* False and has saved nothing; and when the original file is there as it
\* starts, it returns True with no attempt made and no file changed.
C33_BoundedAttempts ==
    /\ [](\A t \in Tasks :
            /\ attempt[t] <= max_retries
            /\ fetched[t] = "content" => fpc[t] = "returned"
            /\ fpc[t] \in {"ready", "returned"} =>
                  (lock # t /\ \A k \in 1..Len(waiters) : waiters[k] # t))
    /\ [][\A t \in Tasks :
            /\ attempt'[t] # attempt[t] =>
                  (fetched[t] # "content" /\ attempt'[t] = attempt[t] + 1)
            /\ (fpc[t] = "chat" /\ fpc'[t] = "returned" /\ fetched'[t] # "content") =>
                  /\ attempt[t] = max_retries
                  /\ fret'[t] = "False"
                  /\ saved'[t] = "none"
                  /\ files' = files
            /\ (fpc[t] = "ready" /\ attempt[t] = 0 /\ files[original_filename(t)] # NoFile
                  /\ fpc'[t] # fpc[t]) =>
                  /\ fpc'[t] = "returned"
                  /\ fret'[t] = "True"
                  /\ attempt'[t] = 0
                  /\ files' = files]_vars

\* One task found its file and returned True without an attempt, one got
\* content on its second attempt, and one returned False after three
\* attempts without content.
C33_Witness ==
    \E t, u, w \in Tasks :
       /\ fpc[t] = "returned" /\ attempt[t] = 0 /\ fret[t] = "True"
       /\ fpc[u] = "returned" /\ attempt[u] = 2 /\ fetched[u] = "content"
       /\ fpc[w] = "returned" /\ attempt[w] = max_retries /\ fetched[w] # "content"
       /\ fret[w] = "False"

\* C34: save_article_to_file never overwrites: a file that is there is
\* never changed; a save that finds its file there returns False; and so
\* the file of an article holds what the first successful save of that file
\* name wrote, whatever saves come after it.
C34_NeverOverwrites ==
    /\ [][/\ \A f \in FileNames : files[f] # NoFile => files'[f] = files[f]
          /\ \A t \in Tasks :
                (saved'[t] # saved[t] /\ files[original_filename(t)] # NoFile) =>
                    (saved'[t] = "False" /\ files' = files)]_vars
    /\ [](\A t \in Tasks : saved[t] = "True" => files[original_filename(t)] = t)

\* Two tasks were given the same title and both fetched content: the save
\* of the first one wrote the file, the save of the second one returned
\* False, and the file holds what the first one wrote.
C34_Witness ==
    \E t, u \in Tasks :
       /\ t # u
       /\ title[t] = title[u]
       /\ saved[t] = "True"
       /\ fetched[u] = "content"
       /\ saved[u] = "False"
       /\ files[original_filename(u)] = t

-----------------------------------------------------------------------------
(* evaluate_article *)

\* C35: evaluate_article calls the model at most twice for an article; the
\* second call is made only with retry enabled and on a first output that
\* failed validate_yaml, and it is handed the first call's history extended
\* by that output (as the assistant's turn) and the format-error prompt; and
\* the text the second call returns is returned as it is, valid or not,
\* with no further call.
C35_AtMostTwoModelCalls ==
    /\ [](Len(eval_calls) <= 2)
    /\ [][Len(eval_calls') = 2 /\ Len(eval_calls) < 2 =>
            /\ Len(eval_calls) = 1
            /\ retry
            /\ ~validate_yaml(content_out')
            /\ eval_calls'[2] =
                  eval_calls[1] \o <<Assistant(content_out'), PROMPT_RETRY_FORMAT_ERROR>>]_vars
    /\ [][(epc = "second" /\ eval_ret' # NoOutput) =>
            /\ epc' = "returned"
            /\ eval_ret' = content_out'
            /\ eval_calls' = eval_calls]_vars
    /\ [](epc = "returned" /\ eval_ret # NoOutput => eval_ret = content_out)

\* The first output was no YAML with a score, the model was called a second
\* time, and its second output, again without a score, has been returned.
C35_Witness ==
    /\ epc = "returned"
    /\ retry
    /\ Len(eval_calls) = 2
    /\ Len(eval_calls[2]) = 4
    /\ eval_calls[2][3].role = "assistant"
    /\ ~validate_yaml(eval_calls[2][3].content)
    /\ eval_ret = content_out
    /\ ~validate_yaml(eval_ret)

-----------------------------------------------------------------------------
(* _split_text_smart *)

\* The paragraphs of the chunks from chunk n on, in order.
RECURSIVE ParagraphsFrom(_)
ParagraphsFrom(n) ==
    IF n > Len(chunks) THEN <<>> ELSE split(chunks[n]) \o ParagraphsFrom(n + 1)

\* C36: what _split_text_smart returns loses nothing: the chunks joined by
\* a blank line are the text it was given; the chunks' paragraphs, chunk
\* after chunk, are the text's paragraphs in their order; and a chunk
\* longer than max_length is a single paragraph.
C36_SplitLosesNothing ==
    chunks # NoChunks =>
        /\ join(ParagraphBreak, chunks) = source_text
        /\ ParagraphsFrom(1) = split(source_text)
        /\ \A n \in 1..Len(chunks) :
              Len(chunks[n]) > max_length => Len(split(chunks[n])) = 1

\* A text was split into a chunk that is one paragraph longer than
\* max_length and a chunk of several paragraphs.
C36_Witness ==
    /\ chunks # NoChunks
    /\ Len(source_text) > max_length
    /\ \E n, m \in 1..Len(chunks) :
          /\ Len(chunks[n]) > max_length
          /\ Len(split(chunks[m])) > 1
    /\ join(ParagraphBreak, chunks) = source_text

====
